---- MODULE Spec2Model ----
(***************************************************************************)
(* aipal: a chat front-end that runs command-line AI agents.               *)
(*                                                                         *)
(* The module models                                                       *)
(*   - the thread store (resolveThreadId / clearThreadForAgent),           *)
(*   - the per-key serialized queue (enqueue),                             *)
(*   - the agent runner (runAgentForChat) and the entry points that call   *)
(*     it: the text handler, the cron trigger, /reset and /agent,          *)
(*   - shellQuote and the command builders of the agent adapters,          *)
(*   - the codex output parser, the config store (updateConfig), the       *)
(*     /menu reply keyboard, and the memory events the turns capture.      *)
(*                                                                         *)
(* Specifications:                                                         *)
(*   SpecThreads : the thread store alone, applied to every bounded map.   *)
(*   Spec        : text messages, the queue, the runner and /reset.        *)
(*   SpecCron    : Spec with the cron trigger and /agent.                  *)
(*   SpecRunner  : runAgentForChat await by await, with persistThreads.    *)
(*   SpecShell   : shellQuote and the adapters' command builders.          *)
(*   SpecParse   : parseCodexJsonOutput on bounded output streams.         *)
(*   SpecConfig  : readConfig / writeConfig / updateConfig await by await. *)
(*   SpecMenu    : /menu, its navigation cache and the text catch-all.     *)
(*   SpecLive    : Spec under the event loop's scheduling (fairness).      *)
(*   SpecReset   : Spec with /reset observed next to the queued turns.     *)
(*   SpecStartup : turns that begin before loadThreads has resolved.       *)
(*   SpecPersist : the chain of persistThreads and the thread file.        *)
(*   SpecShutdown: shutdown(signal), its waits and timers (fairness).      *)
(*   SpecSessions: the commands that attach or clear a session.            *)
(*   SpecCurate  : the events-since-curate counter and memoryPersist.      *)
(***************************************************************************)
EXTENDS Integers, Sequences, FiniteSets, TLC

VARIABLES
  threads,      \* Map threadKey -> session id (index.js `threads`)
  threadTurns,  \* Map threadKey -> number of turns run (appState.threadTurns)
  queues,       \* Map queue key -> tail promise of that key's chain (appState.queues)
  tasks,        \* one record per task handed to enqueue or run by a cron trigger
  globalAgent,  \* index.js `globalAgent`
  last,         \* SpecThreads: the last thread-store call, its arguments and result
  migrations,   \* SpecThreads: per chat, how often and whereto a legacy entry migrated
  runs,         \* SpecRunner: one record per call of runAgentForChat
  persists,     \* SpecRunner: the promises persistThreads has returned, in call order
  memoryEvents, \* chat id -> the events handed to captureMemoryEvent, in call order
  configDir,    \* SpecConfig: the config file and its .tmp sibling
  configCalls,  \* SpecConfig: one record per call of updateConfig
  menuNavCache, \* SpecMenu: Map conversation key -> state of the keyboard menu
  clock,        \* SpecMenu: Date.now(), in units of the menu's time to live
  allowedUsers, \* SpecMenu: the ALLOWED_USERS set the bot was started with
  threadsLoaded,  \* SpecStartup: loadThreads has resolved and `threads = loaded` has run
  initialThreads, \* SpecStartup: the Map object `threads` is bound to before that
  saves,          \* SpecPersist: number of a persistThreads call -> what its save writes
  threadsFile,    \* SpecPersist: the thread map last written to disk
  shutdownStarted, \* index.js `shutdownStarted`
  shutdownSeq,     \* SpecShutdown: how often and how far the shutdown sequence ran
  signalsHandled,  \* SpecShutdown: the signals whose process.once listener has run
  memoryEventsSinceCurate, \* index.js `memoryEventsSinceCurate`
  memoryPersist    \* SpecCurate: the tasks chained on index.js `memoryPersist`

configVars == <<configDir, configCalls>>

menuVars == <<menuNavCache, clock, allowedUsers>>

\* the state of the process around its handlers: startup, shutdown, curation
startupVars == <<threadsLoaded, initialThreads>>

saveVars == <<saves, threadsFile>>

shutdownVars == <<shutdownStarted, shutdownSeq, signalsHandled>>

curateVars == <<memoryEventsSinceCurate, memoryPersist>>

processVars == <<startupVars, saveVars, shutdownVars, curateVars>>

vars ==
  <<threads, threadTurns, queues, tasks, globalAgent, last, migrations, runs, persists,
    memoryEvents, configVars, menuVars, processVars>>

(***************************************************************************)
(* Bounds of the model.                                                    *)
(***************************************************************************)
MaxTasks == 2

MaxMigrationLog == 2

(***************************************************************************)
(* Values.                                                                 *)
(***************************************************************************)
\* JavaScript `undefined`
undefined == "undefined"

ChatIds == {1, 2}

AGENT_CODEX == "codex"

AGENT_GEMINI == "gemini"

Agents == {AGENT_CODEX, AGENT_GEMINI}

\* session ids: non-empty strings (the runner stores only truthy ids)
SessionIds == {"s1", "s2"}

(***************************************************************************)
(* JavaScript Map: a function whose domain is the set of keys present.     *)
(***************************************************************************)
EmptyMap == [k \in {} |-> undefined]

MapHas(m, k) == k \in DOMAIN m

MapGet(m, k) == IF k \in DOMAIN m THEN m[k] ELSE undefined

MapSet(m, k, v) == [x \in (DOMAIN m) \cup {k} |-> IF x = k THEN v ELSE m[x]]

MapDelete(m, k) == [x \in (DOMAIN m) \ {k} |-> m[x]]

\* JavaScript truthiness of a session id value
Truthy(v) == v # undefined /\ v # ""

\* String(value)
String(v) == ToString(v)

(***************************************************************************)
(* Thread store.  Its chatId parameter is the conversation scope: callers  *)
(* pass the chat and topic, which the store joins as buildTopicKey does.   *)
(***************************************************************************)
\* `${chatId}:${topicId ?? 'root'}`
buildTopicKey(chatId, topicId) ==
  String(chatId) \o ":" \o (IF topicId = undefined THEN "root" ELSE topicId)

\* `${String(chatId)}:${agentId}`
buildThreadKey(chatId, agentId) == chatId \o ":" \o agentId

\* String(chatId)
getLegacyThreadKey(chatId) == chatId

\* resolveThreadId with the legacy entry looked up before the canonical one
resolveThreadIdLegacyFirst(map, chatId, agentId) ==
  LET threadKey == buildThreadKey(chatId, agentId)
      legacyKey == getLegacyThreadKey(chatId)
      direct == MapGet(map, threadKey)
      legacy == MapGet(map, legacyKey)
  IN  IF Truthy(legacy)
        THEN [threadKey |-> threadKey, threadId |-> legacy, migrated |-> TRUE,
              threads |-> MapDelete(MapSet(map, threadKey, legacy), legacyKey)]
        ELSE IF Truthy(direct)
          THEN [threadKey |-> threadKey, threadId |-> direct, migrated |-> FALSE,
                threads |-> map]
          ELSE [threadKey |-> threadKey, threadId |-> undefined, migrated |-> FALSE,
                threads |-> map]

\* resolveThreadId that migrates by copying and leaves the legacy entry in place
resolveThreadIdKeepLegacy(map, chatId, agentId) ==
  LET threadKey == buildThreadKey(chatId, agentId)
      legacyKey == getLegacyThreadKey(chatId)
      direct == MapGet(map, threadKey)
      legacy == MapGet(map, legacyKey)
  IN  IF Truthy(direct)
        THEN [threadKey |-> threadKey, threadId |-> direct, migrated |-> FALSE,
              threads |-> map]
        ELSE IF Truthy(legacy)
          THEN [threadKey |-> threadKey, threadId |-> legacy, migrated |-> TRUE,
                threads |-> MapSet(map, threadKey, legacy)]
          ELSE [threadKey |-> threadKey, threadId |-> undefined, migrated |-> FALSE,
                threads |-> map]

\* resolveThreadId that reports a migration as an ordinary hit
resolveThreadIdSilent(map, chatId, agentId) ==
  LET r == resolveThreadIdKeepLegacy(map, chatId, agentId)
  IN  IF r.migrated
        THEN [r EXCEPT !.migrated = FALSE,
                       !.threads = MapDelete(r.threads, getLegacyThreadKey(chatId))]
        ELSE r

\* resolveThreadId that migrates into a fresh map holding the migrated entry
resolveThreadIdFreshMap(map, chatId, agentId) ==
  LET r == resolveThreadIdKeepLegacy(map, chatId, agentId)
  IN  IF r.migrated
        THEN [r EXCEPT !.threads = MapSet(EmptyMap, r.threadKey, r.threadId)]
        ELSE r

\* returns { threadKey, threadId, migrated }; field threads is the map afterwards
resolveThreadId(map, chatId, agentId) ==
  LET threadKey == buildThreadKey(chatId, agentId)
      legacyKey == getLegacyThreadKey(chatId)
      direct == MapGet(map, threadKey)
      legacy == MapGet(map, legacyKey)
  IN  IF Truthy(direct)
        THEN [threadKey |-> threadKey, threadId |-> direct, migrated |-> FALSE,
              threads |-> map]
        ELSE IF Truthy(legacy)
          THEN [threadKey |-> threadKey, threadId |-> legacy, migrated |-> TRUE,
                threads |-> MapDelete(MapSet(map, threadKey, legacy), legacyKey)]
          ELSE [threadKey |-> threadKey, threadId |-> undefined, migrated |-> FALSE,
                threads |-> map]

\* clearThreadForAgent that removes the canonical entry only
clearThreadForAgentCanonicalOnly(map, chatId, agentId) ==
  LET threadKey == buildThreadKey(chatId, agentId)
      removed == MapHas(map, threadKey)
  IN  [removed |-> removed, threads |-> MapDelete(map, threadKey)]

\* returns removed || removedLegacy; field threads is the map afterwards
clearThreadForAgent(map, chatId, agentId) ==
  LET threadKey == buildThreadKey(chatId, agentId)
      legacyKey == getLegacyThreadKey(chatId)
      removed == MapHas(map, threadKey)
      removedLegacy == MapHas(map, legacyKey)
  IN  [removed |-> removed \/ removedLegacy,
       threads |-> MapDelete(MapDelete(map, threadKey), legacyKey)]

(***************************************************************************)
(* SpecThreads: the thread store applied to every map over the keys of     *)
(* two conversations and two agents.                                       *)
(***************************************************************************)
Scopes == {buildTopicKey(c, undefined) : c \in ChatIds}

ThreadKeys ==
  {buildThreadKey(s, a) : s \in Scopes, a \in Agents}
    \cup {getLegacyThreadKey(s) : s \in Scopes}

ThreadMaps ==
  UNION {[ks -> SessionIds] : ks \in SUBSET ThreadKeys}

NoCall ==
  [op |-> "none", chatId |-> undefined, agentId |-> undefined,
   before |-> EmptyMap, threadKey |-> undefined, threadId |-> undefined,
   migrated |-> FALSE, removed |-> FALSE]

NoMigrations == [s \in Scopes |-> [count |-> 0, keys |-> {}]]

LogMigration(log, chatId, r) ==
  IF r.migrated
    THEN [log EXCEPT ![chatId] =
            [count |-> IF @.count < MaxMigrationLog THEN @.count + 1 ELSE @.count,
             keys |-> @.keys \cup {r.threadKey}]]
    ELSE log

\* a path at which no file exists
NoFile == [exists |-> FALSE, raw |-> <<>>]

\* the parts of the state a specification does not use, at rest
\* the process is up: threads loaded, so `threads` is the loaded map
InitProcess ==
  /\ threadsLoaded = TRUE
  /\ initialThreads = EmptyMap
  /\ saves = EmptyMap
  /\ threadsFile = EmptyMap
  /\ shutdownStarted = FALSE
  /\ shutdownSeq = [runs |-> 0, pc |-> "idle", pending |-> {}, drainTimedOut |-> FALSE]
  /\ signalsHandled = {}
  /\ memoryEventsSinceCurate = 0
  /\ memoryPersist = <<>>

InitOther ==
  /\ InitProcess
  /\ memoryEvents = EmptyMap
  /\ configDir = [config |-> NoFile, tmp |-> NoFile]
  /\ configCalls = <<>>
  /\ menuNavCache = EmptyMap
  /\ clock = 1
  /\ allowedUsers = {}

InitThreads ==
  /\ threads \in ThreadMaps
  /\ threadTurns = EmptyMap
  /\ queues = EmptyMap
  /\ tasks = <<>>
  /\ globalAgent = AGENT_CODEX
  /\ last = NoCall
  /\ migrations = NoMigrations
  /\ runs = <<>>
  /\ persists = <<>>
  /\ InitOther

\* a caller resolves the session of a conversation and agent
Resolve(chatId, agentId) ==
  LET r == resolveThreadId(threads, chatId, agentId)
  IN  /\ threads' = r.threads
      /\ last' = [op |-> "resolve", chatId |-> chatId, agentId |-> agentId,
                  before |-> threads, threadKey |-> r.threadKey,
                  threadId |-> r.threadId, migrated |-> r.migrated,
                  removed |-> FALSE]
      /\ migrations' = LogMigration(migrations, chatId, r)
      /\ UNCHANGED <<configVars, menuVars, processVars, memoryEvents,
                     threadTurns, queues, tasks, globalAgent, runs, persists>>

\* the runner stores a session id under the canonical key (threads.set)
Persist(chatId, agentId, sessionId) ==
  LET threadKey == buildThreadKey(chatId, agentId)
  IN  /\ threads' = MapSet(threads, threadKey, sessionId)
      /\ last' = [op |-> "persist", chatId |-> chatId, agentId |-> agentId,
                  before |-> threads, threadKey |-> threadKey,
                  threadId |-> sessionId, migrated |-> FALSE, removed |-> FALSE]
      /\ UNCHANGED <<configVars, menuVars, processVars, memoryEvents,
                     threadTurns, queues, tasks, globalAgent, migrations,
                     runs, persists>>

\* a command clears the session of a conversation and agent
Clear(chatId, agentId) ==
  LET r == clearThreadForAgent(threads, chatId, agentId)
  IN  /\ threads' = r.threads
      /\ last' = [op |-> "clear", chatId |-> chatId, agentId |-> agentId,
                  before |-> threads,
                  threadKey |-> buildThreadKey(chatId, agentId),
                  threadId |-> undefined, migrated |-> FALSE,
                  removed |-> r.removed]
      /\ UNCHANGED <<configVars, menuVars, processVars, memoryEvents,
                     threadTurns, queues, tasks, globalAgent, migrations,
                     runs, persists>>

NextThreads ==
  \/ \E s \in Scopes, a \in Agents : Resolve(s, a)
  \/ \E s \in Scopes, a \in Agents, id \in SessionIds : Persist(s, a, id)
  \/ \E s \in Scopes, a \in Agents : Clear(s, a)

SpecThreads == InitThreads /\ [][NextThreads]_vars

(***************************************************************************)
(* The bot.  Conversations are the root topics of the chats in ChatIds, so *)
(* no per-topic agent override exists and the effective agent is the       *)
(* explicit override of a cron job or else globalAgent.                    *)
(***************************************************************************)
\* agents whose adapter exposes listSessionsCommand / parseSessionList
HasListSessionsCommand(agentId) == agentId = AGENT_GEMINI

\* resolveEffectiveAgentId: explicit override, else the global agent
resolveEffectiveAgentId(overrideAgentId, global) ==
  IF overrideAgentId # undefined THEN overrideAgentId ELSE global

NewTask(kind, chatId, key, overrideAgentId, pc) ==
  [kind |-> kind, chatId |-> chatId, key |-> key, prev |-> 0, pc |-> pc,
   override |-> overrideAgentId, agentId |-> undefined,
   threadId |-> undefined, parsedThreadId |-> undefined]

TaskIds == 1..Len(tasks)

\* runAgentForChat has returned or thrown: its locals are gone; parsedThreadId
\* is the session id it obtained, kept until the handler's next step
Returned(t, pc, parsedThreadId) ==
  [t EXCEPT !.pc = pc, !.agentId = undefined, !.threadId = undefined,
            !.parsedThreadId = parsedThreadId]

\* a settled task: its locals are gone, the promise state remains
SettledTask(t, state) ==
  [t EXCEPT !.pc = state, !.override = undefined, !.agentId = undefined,
            !.threadId = undefined, !.parsedThreadId = undefined]

Settled(t) == t.pc \in {"fulfilled", "rejected"}

\* the task is inside runAgentForChat: between its resolve step and its return
InRunner(t) == t.pc \in {"exec", "listing"}

\* the task's body is executing: dispatched and not yet settled
Running(t) == t.pc \notin {"queued", "fulfilled", "rejected"}

\* the thread key a task's runner call works on, once it has resolved
TaskThreadKey(t) ==
  buildThreadKey(buildTopicKey(t.chatId, undefined), t.agentId)

(***************************************************************************)
(* Per-key serialized queue (services/queue, createEnqueue): per key the   *)
(* map holds the most recently chained promise; a task is chained after    *)
(* it with the predecessor's rejection swallowed; the entry is dropped     *)
(* when the promise it holds settles.                                      *)
(***************************************************************************)
\* a chain in which a rejected predecessor is not caught
ChainReadyUncaught(ts, i) ==
  IF ts[i].prev = 0 THEN TRUE ELSE ts[ts[i].prev].pc = "fulfilled"

\* prev.catch(() => {}).then(task): the task runs once its predecessor settled
ChainReady(ts, i) ==
  IF ts[i].prev = 0 THEN TRUE ELSE Settled(ts[ts[i].prev])

\* enqueue(key, task): chain the task after the key's tail and make it the tail
Enqueue(key, task) ==
  LET tail == IF MapHas(queues, key) THEN queues[key] ELSE 0
      id == Len(tasks) + 1
  IN  /\ tasks' = Append(tasks, [task EXCEPT !.prev = tail])
      /\ queues' = MapSet(queues, key, id)

\* a queue that keeps the entry of a key once it has one
DequeueKeep(qs, ts, i) == qs

\* the bookkeeping when task i settles: drop the key if i is still its tail
Dequeue(qs, ts, i) ==
  IF MapHas(qs, ts[i].key) /\ qs[ts[i].key] = i
    THEN MapDelete(qs, ts[i].key)
    ELSE qs

(***************************************************************************)
(* Agent runner.                                                           *)
(***************************************************************************)
\* what execLocal can produce: stdout as the parser sees it
Outputs ==
  {[blank |-> TRUE, sawJson |-> FALSE, text |-> "", threadId |-> undefined],
   [blank |-> FALSE, sawJson |-> FALSE, text |-> "", threadId |-> undefined],
   [blank |-> FALSE, sawJson |-> TRUE, text |-> "", threadId |-> undefined],
   [blank |-> FALSE, sawJson |-> TRUE, text |-> "hi", threadId |-> undefined]}
    \cup {[blank |-> FALSE, sawJson |-> TRUE, text |-> "hi", threadId |-> id] :
            id \in SessionIds}

\* execLocal resolves with stdout, or rejects with an error carrying stdout
ExecResults == [execError : BOOLEAN, stdout : Outputs]

\* agent.parseOutput
parseOutput(output) ==
  [text |-> output.text, threadId |-> output.threadId, sawJson |-> output.sawJson]

\* a runner that propagates every execution error, whatever the stdout
execOutcomeStrict(res) ==
  [throw |-> res.execError, parsed |-> parseOutput(res.stdout)]

\* a runner that goes on with any non-blank stdout of a failed process
execOutcomeLenient(res) ==
  [throw |-> res.execError /\ res.stdout.blank, parsed |-> parseOutput(res.stdout)]

\* the try/catch around execLocal and the check after parsing: whether the
\* runner throws the execution error, and else the parsed output it goes on with
execOutcome(res) ==
  LET parsed == parseOutput(res.stdout)
      noStdout == res.execError /\ res.stdout.blank
      unusable == res.execError /\ ~parsed.sawJson /\ parsed.text = ""
  IN  [throw |-> noStdout \/ unusable, parsed |-> parsed]

\* if (parsed.threadId) threads.set(threadKey, parsed.threadId)
persistParsedThread(map, threadKey, parsedThreadId) ==
  IF Truthy(parsedThreadId) THEN MapSet(map, threadKey, parsedThreadId) ELSE map

\* a turn count that starts over with every call
nextTurnCountFirst(turns, threadKey) == 1

\* (threadTurns.get(threadKey) || 0) + 1
nextTurnCount(turns, threadKey) ==
  IF MapHas(turns, threadKey) THEN turns[threadKey] + 1 ELSE 1

(***************************************************************************)
(* Entry points.                                                           *)
(***************************************************************************)
\* captureMemoryEvent({ role, chatId, ... }) is called for a task: the log
\* keeps the events of each conversation in call order
captureMemoryEvent(events, chatId, role, i) ==
  MapSet(events, chatId,
         Append(IF MapHas(events, chatId) THEN events[chatId] ELSE <<>>,
                [role |-> role, task |-> i]))

\* a text handler that runs its task at once instead of enqueueing it
TextHandlerUnqueued(chatId) ==
  /\ Len(tasks) < MaxTasks
  /\ tasks' = Append(tasks, NewTask("text", chatId, undefined, undefined, "captureUser"))
  /\ memoryEvents' = captureMemoryEvent(memoryEvents, chatId, "user", Len(tasks) + 1)
  /\ UNCHANGED <<configVars, menuVars, processVars, threads, threadTurns,
                 queues, globalAgent, last, migrations, runs, persists>>

\* a text handler that enqueues every conversation under one key
TextHandlerSharedKey(chatId) ==
  /\ Len(tasks) < MaxTasks
  /\ Enqueue("text", NewTask("text", chatId, "text", undefined, "queued"))
  /\ UNCHANGED <<configVars, menuVars, processVars, memoryEvents, threads,
                 threadTurns, globalAgent, last, migrations, runs, persists>>

\* bot.on('text'): enqueue(topicKey, async () => { ... })
TextHandler(chatId) ==
  /\ Len(tasks) < MaxTasks
  /\ Enqueue(buildTopicKey(chatId, undefined),
             NewTask("text", chatId, buildTopicKey(chatId, undefined), undefined, "queued"))
  /\ UNCHANGED <<configVars, menuVars, processVars, memoryEvents, threads,
                 threadTurns, globalAgent, last, migrations, runs, persists>>

\* handleCronTrigger: called by the scheduler, runs up to its first await
CronTrigger(chatId, agent) ==
  /\ Len(tasks) < MaxTasks
  /\ tasks' = Append(tasks, NewTask("cron", chatId, undefined, agent, "captureUser"))
  /\ UNCHANGED <<configVars, menuVars, processVars, memoryEvents, threads,
                 threadTurns, queues, globalAgent, last, migrations, runs,
                 persists>>

\* the queue dispatches task i: the handler body runs up to
\* await captureMemoryEvent({ role: 'user' })
StartTask(i) ==
  /\ tasks[i].pc = "queued"
  /\ ChainReady(tasks, i)
  /\ tasks' = [tasks EXCEPT ![i].pc = "captureUser"]
  /\ memoryEvents' = captureMemoryEvent(memoryEvents, tasks[i].chatId, "user", i)
  /\ UNCHANGED <<configVars, menuVars, processVars, threads, threadTurns,
                 queues, globalAgent, last, migrations, runs, persists>>

\* runAgentForChat up to await execLocal: effective agent, resolve, turn count.
\* The awaits of the bootstrap and retrieval collaborators in between touch
\* none of the state and are part of this step.
RunAgentForChat(i) ==
  /\ tasks[i].pc = "captureUser"
  /\ memoryEvents' = IF tasks[i].kind = "cron"
                       THEN captureMemoryEvent(memoryEvents, tasks[i].chatId, "user", i)
                       ELSE memoryEvents
  /\ LET effectiveAgentId == resolveEffectiveAgentId(tasks[i].override, globalAgent)
         chatId == buildTopicKey(tasks[i].chatId, undefined)
         r == resolveThreadId(threads, chatId, effectiveAgentId)
     IN  /\ threads' = r.threads
         /\ threadTurns' = MapSet(threadTurns, r.threadKey,
                                  nextTurnCount(threadTurns, r.threadKey))
         /\ tasks' = [tasks EXCEPT ![i].pc = "exec",
                                   ![i].override = undefined,
                                   ![i].agentId = effectiveAgentId,
                                   ![i].threadId = r.threadId]
  /\ UNCHANGED <<configVars, menuVars, processVars, queues, globalAgent, last,
                 migrations, runs, persists>>

\* sendChatAction of a cron trigger rejects: its catch block reports the failure
CronTypingFailed(i) ==
  /\ tasks[i].pc = "captureUser"
  /\ tasks[i].kind = "cron"
  /\ tasks' = [tasks EXCEPT ![i].pc = "errorReply"]
  /\ UNCHANGED <<configVars, menuVars, processVars, memoryEvents, threads,
                 threadTurns, queues, globalAgent, last, migrations, runs,
                 persists>>

\* a handler without the catch block: a throwing runner rejects the task
\* with no error reply
ExecDoneUncaught(i, res) ==
  /\ tasks[i].pc = "exec"
  /\ LET outcome == execOutcome(res)
         parsed == outcome.parsed
     IN  IF outcome.throw
           THEN /\ tasks' = [tasks EXCEPT ![i] = SettledTask(@, "rejected")]
                /\ queues' = Dequeue(queues, tasks, i)
                /\ UNCHANGED <<threads, memoryEvents>>
           ELSE IF ~Truthy(parsed.threadId) /\ HasListSessionsCommand(tasks[i].agentId)
             THEN /\ tasks' = [tasks EXCEPT ![i].pc = "listing", ![i].threadId = undefined]
                  /\ UNCHANGED <<threads, queues, memoryEvents>>
             ELSE /\ tasks' = [tasks EXCEPT ![i] =
                                 Returned(@, "captureAssistant", parsed.threadId)]
                  /\ threads' = persistParsedThread(threads, TaskThreadKey(tasks[i]),
                                                    parsed.threadId)
                  /\ memoryEvents' = captureMemoryEvent(memoryEvents, tasks[i].chatId,
                                                        "assistant", i)
                  /\ UNCHANGED queues
  /\ UNCHANGED <<configVars, menuVars, processVars, threadTurns, globalAgent,
                 last, migrations, runs, persists>>

\* execLocal settles; the runner parses, then either throws, or runs the
\* session-listing fallback, or stores the session id and returns
ExecDone(i, res) ==
  /\ tasks[i].pc = "exec"
  /\ LET outcome == execOutcome(res)
         parsed == outcome.parsed
     IN  IF outcome.throw
           THEN /\ tasks' = [tasks EXCEPT ![i] = Returned(@, "errorReply", undefined)]
                /\ UNCHANGED <<threads, memoryEvents>>
           ELSE IF ~Truthy(parsed.threadId) /\ HasListSessionsCommand(tasks[i].agentId)
             THEN /\ tasks' = [tasks EXCEPT ![i].pc = "listing", ![i].threadId = undefined]
                  /\ UNCHANGED <<threads, memoryEvents>>
             ELSE /\ tasks' = [tasks EXCEPT ![i] =
                                 Returned(@, "captureAssistant", parsed.threadId)]
                  /\ threads' = persistParsedThread(threads, TaskThreadKey(tasks[i]),
                                                    parsed.threadId)
                  /\ memoryEvents' = captureMemoryEvent(memoryEvents, tasks[i].chatId,
                                                        "assistant", i)
  /\ UNCHANGED <<configVars, menuVars, processVars, threadTurns, queues,
                 globalAgent, last, migrations, runs, persists>>

\* the listing command settles: "fail" (swallowed), nothing found, or an id
ListResults == {"fail", undefined} \cup SessionIds

ListDone(i, resolved) ==
  /\ tasks[i].pc = "listing"
  /\ LET parsedThreadId == IF resolved \in SessionIds THEN resolved ELSE undefined
     IN  /\ tasks' = [tasks EXCEPT ![i] =
                         Returned(@, "captureAssistant", parsedThreadId)]
         /\ threads' = persistParsedThread(threads, TaskThreadKey(tasks[i]),
                                           parsedThreadId)
         /\ memoryEvents' = captureMemoryEvent(memoryEvents, tasks[i].chatId, "assistant", i)
  /\ UNCHANGED <<configVars, menuVars, processVars, threadTurns, queues,
                 globalAgent, last, migrations, runs, persists>>

\* await captureMemoryEvent({ role: 'assistant' }) completes
CaptureAssistantDone(i) ==
  /\ tasks[i].pc = "captureAssistant"
  /\ tasks' = [tasks EXCEPT ![i].pc = "reply", ![i].parsedThreadId = undefined]
  /\ UNCHANGED <<configVars, menuVars, processVars, memoryEvents, threads,
                 threadTurns, queues, globalAgent, last, migrations, runs,
                 persists>>

\* the reply is sent (the task fulfils) or sending throws (the catch block runs)
ReplyDone(i, ok) ==
  /\ tasks[i].pc = "reply"
  /\ tasks' = [tasks EXCEPT ![i] = IF ok THEN SettledTask(@, "fulfilled")
                                        ELSE [@ EXCEPT !.pc = "errorReply"]]
  /\ queues' = IF ok THEN Dequeue(queues, tasks, i) ELSE queues
  /\ UNCHANGED <<configVars, menuVars, processVars, memoryEvents, threads,
                 threadTurns, globalAgent, last, migrations, runs, persists>>

\* the error reply is sent, or sending it throws: a text task then rejects,
\* a cron trigger swallows the failure
ErrorReplyDone(i, ok) ==
  /\ tasks[i].pc = "errorReply"
  /\ tasks' = [tasks EXCEPT ![i] =
                 SettledTask(@, IF ok \/ tasks[i].kind = "cron" THEN "fulfilled"
                                                               ELSE "rejected")]
  /\ queues' = Dequeue(queues, tasks, i)
  /\ UNCHANGED <<configVars, menuVars, processVars, memoryEvents, threads,
                 threadTurns, globalAgent, last, migrations, runs, persists>>

\* bot.command('reset'): clears the session and the turn counter at once
ResetCommand(chatId) ==
  /\ LET effectiveAgentId == resolveEffectiveAgentId(undefined, globalAgent)
         topicKey == buildTopicKey(chatId, undefined)
     IN  /\ threads' = clearThreadForAgent(threads, topicKey, effectiveAgentId).threads
         /\ threadTurns' = MapDelete(threadTurns,
                                     topicKey \o ":" \o effectiveAgentId)
  /\ UNCHANGED <<configVars, menuVars, processVars, memoryEvents, queues,
                 tasks, globalAgent, last, migrations, runs, persists>>

\* bot.command('agent') in a root topic: globalAgent = normalizedAgent
AgentCommand(agent) ==
  /\ globalAgent' = agent
  /\ UNCHANGED <<configVars, menuVars, processVars, memoryEvents, threads,
                 threadTurns, queues, tasks, last, migrations, runs,
                 persists>>

\* thread maps loadThreads can hand over at startup
InitialThreadMaps ==
  {EmptyMap,
   [k \in {getLegacyThreadKey(buildTopicKey(1, undefined))} |-> "s1"]}

\* after startup: threads loaded, globalAgent taken from the config file
Init ==
  /\ threads \in InitialThreadMaps
  /\ threadTurns = EmptyMap
  /\ queues = EmptyMap
  /\ tasks = <<>>
  /\ globalAgent \in Agents
  /\ last = NoCall
  /\ migrations = NoMigrations
  /\ runs = <<>>
  /\ persists = <<>>
  /\ InitOther

\* text messages, the steps of their tasks, and /reset
Next ==
  \/ \E c \in ChatIds : TextHandler(c)
  \/ \E i \in TaskIds : StartTask(i)
  \/ \E i \in TaskIds : RunAgentForChat(i)
  \/ \E i \in TaskIds, res \in ExecResults : ExecDone(i, res)
  \/ \E i \in TaskIds, resolved \in ListResults : ListDone(i, resolved)
  \/ \E i \in TaskIds : CaptureAssistantDone(i)
  \/ \E i \in TaskIds, ok \in BOOLEAN : ReplyDone(i, ok)
  \/ \E i \in TaskIds, ok \in BOOLEAN : ErrorReplyDone(i, ok)
  \/ \E c \in ChatIds : ResetCommand(c)

Spec == Init /\ [][Next]_vars

\* Spec with the scheduling the event loop gives: a continuation that is
\* ready is run, every agent execution and session listing ends (by
\* completion or by the configured timeout), and every awaited collaborator
\* call (memory capture, Telegram reply) settles.  Submissions and /reset
\* are the environment's and carry no fairness.
TaskStep(i) ==
  \/ StartTask(i)
  \/ RunAgentForChat(i)
  \/ \E res \in ExecResults : ExecDone(i, res)
  \/ \E resolved \in ListResults : ListDone(i, resolved)
  \/ CaptureAssistantDone(i)
  \/ \E ok \in BOOLEAN : ReplyDone(i, ok)
  \/ \E ok \in BOOLEAN : ErrorReplyDone(i, ok)

Fairness == WF_vars(\E i \in TaskIds : TaskStep(i))

\* a fresh installation: no stored sessions.  The agent is the one with a
\* session listing: its turns take every step a turn can take, and the
\* agent never changes in Next.
InitLive == Init /\ threads = EmptyMap /\ globalAgent = AGENT_GEMINI

SpecLive == InitLive /\ [][Next]_vars /\ Fairness

\* bot.command('reset') as ResetCommand, remembering the conversation, the
\* agent and the number of turns submitted before it
ResetObserved(chatId) ==
  /\ LET effectiveAgentId == resolveEffectiveAgentId(undefined, globalAgent)
         topicKey == buildTopicKey(chatId, undefined)
     IN  /\ threads' = clearThreadForAgent(threads, topicKey, effectiveAgentId).threads
         /\ threadTurns' = MapDelete(threadTurns,
                                     topicKey \o ":" \o effectiveAgentId)
         /\ last' = [op |-> "reset", chatId |-> chatId, agentId |-> effectiveAgentId,
                     submitted |-> Len(tasks)]
  /\ UNCHANGED <<configVars, menuVars, processVars, memoryEvents, queues,
                 tasks, globalAgent, migrations, runs, persists>>

\* text messages, the steps of their tasks, and /reset with its record
NextReset ==
  \/ \E c \in ChatIds : TextHandler(c)
  \/ \E i \in TaskIds : TaskStep(i)
  \/ \E c \in ChatIds : ResetObserved(c)

SpecReset == Init /\ [][NextReset]_vars

\* the same with cron triggers and /agent
NextCron ==
  \/ Next
  \/ \E c \in ChatIds, a \in Agents \cup {undefined} : CronTrigger(c, a)
  \/ \E i \in TaskIds : CronTypingFailed(i)
  \/ \E a \in Agents : AgentCommand(a)

SpecCron == Init /\ [][NextCron]_vars

(***************************************************************************)
(* SpecRunner: runAgentForChat await by await, for the conversation of     *)
(* chat 1, with the promises that persistThreads returns.  Calls may       *)
(* overlap, as they do when a cron trigger runs beside a queued turn.      *)
(***************************************************************************)
MaxRuns == 2

\* the configured cadence of the file-handling instructions
fileInstructionsEvery == 2

RunnerScope == buildTopicKey(1, undefined)

\* prompt texts handed to the runner
Prompts == {"", "hello"}

\* thread maps at the time of a call: any of the legacy and canonical entries
RunnerThreadMaps ==
  UNION {[ks -> {"s1"}] :
           ks \in SUBSET ({getLegacyThreadKey(RunnerScope)}
                            \cup {buildThreadKey(RunnerScope, a) : a \in Agents})}

\* a prompt text as the list of blocks it is made of
promptBlocks(prompt) == IF prompt = "" THEN <<>> ELSE <<"prompt">>

\* file instructions on the first turn of a new session only
shouldIncludeFileInstructionsNewSessionOnly(threadId, turnCount) ==
  ~Truthy(threadId)

\* !threadId || turnCount % fileInstructionsEvery === 0
shouldIncludeFileInstructions(threadId, turnCount) ==
  ~Truthy(threadId) \/ turnCount % fileInstructionsEvery = 0

\* a runner that prepends the bootstrap block on every turn
withBootstrapAlways(threadId, blocks) == <<"bootstrap">> \o blocks

\* if (!threadId) promptWithContext = promptWithContext ?
\*   `${bootstrap}\n\n${promptWithContext}` : bootstrap
withBootstrap(threadId, blocks) ==
  IF ~Truthy(threadId) THEN <<"bootstrap">> \o blocks ELSE blocks

\* if (retrievalContext) promptWithContext = promptWithContext ?
\*   `${promptWithContext}\n\n${retrievalContext}` : retrievalContext
withRetrieval(blocks, retrievalContext) ==
  IF retrievalContext # "" THEN blocks \o <<"retrieval">> ELSE blocks

\* buildPrompt(promptWithContext, ..., { includeFileInstructions }): keeps the
\* text it is given and adds the file-handling instructions when asked to
buildPrompt(blocks, includeFileInstructions) ==
  IF includeFileInstructions THEN blocks \o <<"fileInstructions">> ELSE blocks

\* return parsed.text || output
returnValue(parsed) == IF parsed.text # "" THEN parsed.text ELSE "stdout"

\* parsed.threadId after the listing fallback: the id parseSessionList found,
\* none when the listing failed or found nothing
listedThreadId(resolved) ==
  IF resolved \in SessionIds THEN resolved ELSE undefined

\* persistThreads(): a new promise, chained after the ones returned before
persistThreads(ps, run) == Append(ps, [by |-> run, state |-> "pending"])

\* a rejection handler that lets the rejection reach the run that persisted
persistCatchRethrow(rs, run, ok) ==
  IF ok THEN rs ELSE [rs EXCEPT ![run].pc = "thrown", ![run].error = "persist"]

\* persistThreads().catch((err) => console.warn(...)): logs, nothing else
persistCatch(rs, run, ok) == rs

NewRun(agentId, prompt, threadId, hadSession, turnCount) ==
  [pc |-> "context", agentId |-> agentId, prompt |-> prompt,
   threadId |-> threadId, hadSession |-> hadSession, turnCount |-> turnCount,
   text |-> "", error |-> undefined]

\* the call is over: its locals are gone
EndRun(r, pc, error) ==
  [r EXCEPT !.pc = pc, !.prompt = "", !.threadId = undefined,
            !.hadSession = FALSE, !.turnCount = 0, !.text = "", !.error = error]

RunIds == 1..Len(runs)

InitRunner ==
  /\ threads \in RunnerThreadMaps
  /\ threadTurns = EmptyMap
  /\ queues = EmptyMap
  /\ tasks = <<>>
  /\ globalAgent = AGENT_CODEX
  /\ last = NoCall
  /\ migrations = NoMigrations
  /\ runs = <<>>
  /\ persists = <<>>
  /\ InitOther

\* runAgentForChat up to its first await: effective agent, resolve, turn
\* count, and the persist after a migration
RunStart(agentId, prompt) ==
  /\ Len(runs) < MaxRuns
  /\ LET r == resolveThreadId(threads, RunnerScope, agentId)
         turnCount == nextTurnCount(threadTurns, r.threadKey)
         hadSession ==
           \/ MapHas(threads, buildThreadKey(RunnerScope, agentId))
           \/ MapHas(threads, getLegacyThreadKey(RunnerScope))
         id == Len(runs) + 1
     IN  /\ threads' = r.threads
         /\ threadTurns' = MapSet(threadTurns, r.threadKey, turnCount)
         /\ persists' = IF r.migrated THEN persistThreads(persists, id) ELSE persists
         /\ runs' = Append(runs, NewRun(agentId, prompt, r.threadId, hadSession, turnCount))
         /\ last' = [op |-> "start", run |-> id, before |-> threads,
                     persistsBefore |-> Len(persists), migrated |-> r.migrated]
  /\ UNCHANGED <<configVars, menuVars, processVars, memoryEvents, queues,
                 tasks, globalAgent, migrations>>

\* what the awaited collaborators yield: the bootstrap builder or the memory
\* retrieval rejects, or the retrieval context (possibly empty)
ContextResults == {"bootstrapFails", "retrievalFails", "", "memory"}

\* await buildBootstrapContext, await buildMemoryRetrievalContext, buildPrompt,
\* agent.buildCommand: up to await execLocal
RunBuildCommand(i, ctx) ==
  /\ runs[i].pc = "context"
  /\ ctx = "bootstrapFails" => ~Truthy(runs[i].threadId)
  /\ IF ctx \in {"bootstrapFails", "retrievalFails"}
       THEN /\ runs' = [runs EXCEPT ![i] =
                          EndRun(@, "thrown", IF ctx = "bootstrapFails"
                                                THEN "bootstrap" ELSE "retrieval")]
            /\ last' = [op |-> "contextFailed", run |-> i]
       ELSE LET r == runs[i]
                include == shouldIncludeFileInstructions(r.threadId, r.turnCount)
                promptWithContext ==
                  withRetrieval(withBootstrap(r.threadId, promptBlocks(r.prompt)), ctx)
            IN  /\ runs' = [runs EXCEPT ![i].pc = "exec", ![i].prompt = "",
                                        ![i].threadId = undefined,
                                        ![i].hadSession = FALSE, ![i].turnCount = 0]
                /\ last' = [op |-> "command", run |-> i,
                            finalPrompt |-> buildPrompt(promptWithContext, include),
                            threadId |-> r.threadId, hadSession |-> r.hadSession,
                            turnCount |-> r.turnCount]
  /\ UNCHANGED <<configVars, menuVars, processVars, memoryEvents, threads,
                 threadTurns, queues, tasks, globalAgent, migrations,
                 persists>>

\* a runner that runs the agent command again when its execution failed
RunExecDoneRetry(i, res) ==
  /\ runs[i].pc = "exec"
  /\ LET outcome == execOutcome(res)
         parsed == outcome.parsed
         threadKey == buildThreadKey(RunnerScope, runs[i].agentId)
         obs == [op |-> "exec", run |-> i, res |-> res, before |-> threads,
                 persistsBefore |-> Len(persists), agentId |-> runs[i].agentId]
     IN  IF outcome.throw
           THEN /\ last' = obs
                /\ UNCHANGED <<runs, threads, persists>>
           ELSE IF ~Truthy(parsed.threadId) /\ HasListSessionsCommand(runs[i].agentId)
             THEN /\ runs' = [runs EXCEPT ![i].pc = "listing",
                                          ![i].text = returnValue(parsed)]
                  /\ last' = obs
                  /\ UNCHANGED <<threads, persists>>
             ELSE /\ runs' = [runs EXCEPT ![i] = EndRun(@, "returned", undefined)]
                  /\ threads' = persistParsedThread(threads, threadKey, parsed.threadId)
                  /\ persists' = IF Truthy(parsed.threadId)
                                   THEN persistThreads(persists, i) ELSE persists
                  /\ last' = [obs EXCEPT !.op = "return"] @@
                               [reply |-> returnValue(parsed),
                                stored |-> parsed.threadId]
  /\ UNCHANGED <<configVars, menuVars, processVars, memoryEvents, threadTurns,
                 queues, tasks, globalAgent, migrations>>

\* execLocal settles: throw, or go on to the listing fallback, or store the
\* session id, persist without awaiting, and return
RunExecDone(i, res) ==
  /\ runs[i].pc = "exec"
  /\ LET outcome == execOutcome(res)
         parsed == outcome.parsed
         threadKey == buildThreadKey(RunnerScope, runs[i].agentId)
         obs == [op |-> "exec", run |-> i, res |-> res, before |-> threads,
                 persistsBefore |-> Len(persists), agentId |-> runs[i].agentId]
     IN  IF outcome.throw
           THEN /\ runs' = [runs EXCEPT ![i] = EndRun(@, "thrown", "exec")]
                /\ last' = obs
                /\ UNCHANGED <<threads, persists>>
           ELSE IF ~Truthy(parsed.threadId) /\ HasListSessionsCommand(runs[i].agentId)
             THEN /\ runs' = [runs EXCEPT ![i].pc = "listing",
                                          ![i].text = returnValue(parsed)]
                  /\ last' = obs
                  /\ UNCHANGED <<threads, persists>>
             ELSE /\ runs' = [runs EXCEPT ![i] = EndRun(@, "returned", undefined)]
                  /\ threads' = persistParsedThread(threads, threadKey, parsed.threadId)
                  /\ persists' = IF Truthy(parsed.threadId)
                                   THEN persistThreads(persists, i) ELSE persists
                  /\ last' = [obs EXCEPT !.op = "return"] @@
                               [reply |-> returnValue(parsed),
                                stored |-> parsed.threadId]
  /\ UNCHANGED <<configVars, menuVars, processVars, memoryEvents, threadTurns,
                 queues, tasks, globalAgent, migrations>>

\* a listing fallback whose failure is not caught
RunListDoneUncaught(i, resolved) ==
  /\ runs[i].pc = "listing"
  /\ LET parsedThreadId == listedThreadId(resolved)
         threadKey == buildThreadKey(RunnerScope, runs[i].agentId)
     IN  /\ runs' = [runs EXCEPT ![i] =
                       IF resolved = "fail" THEN EndRun(@, "thrown", "listing")
                                            ELSE EndRun(@, "returned", undefined)]
         /\ threads' = persistParsedThread(threads, threadKey, parsedThreadId)
         /\ persists' = IF Truthy(parsedThreadId)
                          THEN persistThreads(persists, i) ELSE persists
         /\ last' = [op |-> "list", run |-> i, resolved |-> resolved,
                     before |-> threads, persistsBefore |-> Len(persists),
                     reply |-> runs[i].text, stored |-> parsedThreadId]
  /\ UNCHANGED <<configVars, menuVars, processVars, memoryEvents, threadTurns,
                 queues, tasks, globalAgent, migrations>>

\* the listing command settles inside its try/catch; then store the session id
\* if one was found, persist without awaiting, and return
RunListDone(i, resolved) ==
  /\ runs[i].pc = "listing"
  /\ LET parsedThreadId == listedThreadId(resolved)
         threadKey == buildThreadKey(RunnerScope, runs[i].agentId)
     IN  /\ runs' = [runs EXCEPT ![i] = EndRun(@, "returned", undefined)]
         /\ threads' = persistParsedThread(threads, threadKey, parsedThreadId)
         /\ persists' = IF Truthy(parsedThreadId)
                          THEN persistThreads(persists, i) ELSE persists
         /\ last' = [op |-> "list", run |-> i, resolved |-> resolved,
                     before |-> threads, persistsBefore |-> Len(persists),
                     reply |-> runs[i].text, stored |-> parsedThreadId]
  /\ UNCHANGED <<configVars, menuVars, processVars, memoryEvents, threadTurns,
                 queues, tasks, globalAgent, migrations>>

\* saveThreads of the k-th persistThreads call fulfils or rejects; the chain
\* runs it only after the calls before it have settled
PersistSettled(k, ok) ==
  /\ persists[k].state = "pending"
  /\ \A j \in 1..(k - 1) : persists[j].state # "pending"
  /\ persists' = [persists EXCEPT ![k].state = "settled"]
  /\ runs' = persistCatch(runs, persists[k].by, ok)
  /\ last' = [op |-> "persist", run |-> persists[k].by, ok |-> ok]
  /\ UNCHANGED <<configVars, menuVars, processVars, memoryEvents, threads,
                 threadTurns, queues, tasks, globalAgent, migrations>>

NextRunner ==
  \/ \E a \in Agents, p \in Prompts : RunStart(a, p)
  \/ \E i \in RunIds, ctx \in ContextResults : RunBuildCommand(i, ctx)
  \/ \E i \in RunIds, res \in ExecResults : RunExecDone(i, res)
  \/ \E i \in RunIds, resolved \in ListResults : RunListDone(i, resolved)
  \/ \E k \in 1..Len(persists), ok \in BOOLEAN : PersistSettled(k, ok)

SpecRunner == InitRunner /\ [][NextRunner]_vars

(***************************************************************************)
(* SpecShell: the command builders.  A string is the sequence of its       *)
(* characters; a word made of ordinary characters only, such as codex or   *)
(* --json, is written as one element.                                      *)
(***************************************************************************)
MaxLen == 2

\* characters the shell treats specially, and one ordinary character
Chars == {"a", "'", "\"", " ", "\\", "$", "\n"}

\* every string of at most MaxLen characters
Strings == UNION {[1..n -> Chars] : n \in 0..MaxLen}

\* String.prototype.replace(/'/g, String.raw`'\\''`): the replacement with a
\* doubled backslash
RECURSIVE replaceQuotesDoubled(_)
replaceQuotesDoubled(value) ==
  IF value = <<>> THEN <<>>
  ELSE (IF Head(value) = "'" THEN <<"'", "\\", "\\", "'", "'">> ELSE <<Head(value)>>)
         \o replaceQuotesDoubled(Tail(value))

\* String(value).replace(/'/g, String.raw`'\''`)
RECURSIVE replaceQuotes(_)
replaceQuotes(value) ==
  IF value = <<>> THEN <<>>
  ELSE (IF Head(value) = "'" THEN <<"'", "\\", "'", "'">> ELSE <<Head(value)>>)
         \o replaceQuotes(Tail(value))

\* shellQuote with the doubled backslash
shellQuoteDoubled(value) == <<"'">> \o replaceQuotesDoubled(value) \o <<"'">>

\* shellQuote: `'${escaped}'`
shellQuote(value) == <<"'">> \o replaceQuotes(value) \o <<"'">>

Whitespace == {" ", "\n"}

\* String.prototype.trim
RECURSIVE trimStart(_)
trimStart(str) ==
  IF str # <<>> /\ Head(str) \in Whitespace THEN trimStart(Tail(str)) ELSE str

RECURSIVE trimEnd(_)
trimEnd(str) ==
  IF str # <<>> /\ str[Len(str)] \in Whitespace
    THEN trimEnd(SubSeq(str, 1, Len(str) - 1)) ELSE str

trim(str) == trimEnd(trimStart(str))

\* an option that is not given (JavaScript undefined where a string may stand)
NoString == <<undefined>>

\* a JavaScript string value is truthy when it is given and not empty
TruthyString(value) == value # NoString /\ value # <<>>

CODEX_CMD == <<"codex">>

BASE_ARGS == <<"--json", " ", "--skip-git-repo-check">>

MODEL_ARG == "--model"

THINKING_ARG == "--thinking"

\* the prompt expression the runner passes: "$PROMPT"
PROMPT_EXPRESSION == <<"\"", "$PROMPT", "\"">>

\* resolvePromptValue that embeds the quoted prompt whatever the expression
resolvePromptValueLiteral(prompt, promptExpression) == shellQuote(prompt)

\* if (promptExpression) return promptExpression; return shellQuote(prompt)
resolvePromptValue(prompt, promptExpression) ==
  IF TruthyString(promptExpression) THEN promptExpression ELSE shellQuote(prompt)

\* if (!flag || !value) return args;
\* return `${args} ${flag} ${shellQuote(value)}`.trim()
appendOptionalArg(args, flag, value) ==
  IF ~TruthyString(value) THEN args
  ELSE trim(args \o <<" ", flag, " ">> \o shellQuote(value))

\* a session id as a string: ids are words of ordinary characters
IdString(threadId) == IF threadId = undefined THEN NoString ELSE <<threadId>>

\* buildAgentCommand that starts a fresh session whatever the thread id
buildAgentCommandFresh(prompt, options) ==
  LET promptValue == resolvePromptValue(prompt, options.promptExpression)
      args == appendOptionalArg(
                appendOptionalArg(BASE_ARGS, MODEL_ARG, options.model),
                THINKING_ARG, options.thinking)
  IN  trim(CODEX_CMD \o <<" ", "exec", " ">> \o args \o <<" ">> \o promptValue)

\* the codex adapter's buildAgentCommand(prompt, options)
buildAgentCommand(prompt, options) ==
  LET promptValue == resolvePromptValue(prompt, options.promptExpression)
      args == appendOptionalArg(
                appendOptionalArg(BASE_ARGS, MODEL_ARG, options.model),
                THINKING_ARG, options.thinking)
  IN  IF TruthyString(IdString(options.threadId))
        THEN trim(CODEX_CMD \o <<" ", "exec", " ", "resume", " ">>
                    \o shellQuote(IdString(options.threadId))
                    \o <<" ">> \o args \o <<" ">> \o promptValue)
        ELSE trim(CODEX_CMD \o <<" ", "exec", " ">> \o args \o <<" ">> \o promptValue)

\* the prompt value of the gemini adapter: a supplied prompt expression is
\* used verbatim in place of the quoted prompt, as in the codex adapter
geminiPromptValue(prompt, promptExpression) ==
  resolvePromptValue(prompt, promptExpression)

\* the gemini adapter's buildCommand, as its test pins it down:
\* gemini -p <prompt> --output-format json --yolo [--resume <threadId>]
geminiBuildCommand(prompt, options) ==
  <<"gemini", " ", "-p", " ">>
    \o geminiPromptValue(prompt, options.promptExpression)
    \o <<" ", "--output-format", " ", "json", " ", "--yolo">>
    \o (IF TruthyString(IdString(options.threadId))
          THEN <<" ", "--resume", " ">> \o IdString(options.threadId)
          ELSE <<>>)

\* agent.buildCommand({ prompt, promptExpression, threadId, thinking, model })
buildCommand(agentId, prompt, options) ==
  IF agentId = AGENT_CODEX THEN buildAgentCommand(prompt, options)
                           ELSE geminiBuildCommand(prompt, options)

\* How bash -lc divides a command line into words (POSIX shell quoting):
\* blanks separate words outside quotes; '...' keeps every character; "..."
\* keeps every character but lets \ escape " \ and $, and keeps a parameter
\* reference (the element "$PROMPT") as a part of the word; outside quotes \
\* keeps the next character.  ok is FALSE for what is no single simple command
\* of literal words: an open quote, an unquoted newline, an unquoted or
\* dangling $.
RECURSIVE shSplit(_, _, _, _, _)
shSplit(str, mode, cur, inWord, words) ==
  IF str = <<>>
    THEN IF mode # "none"
           THEN [ok |-> FALSE, words |-> words]
           ELSE [ok |-> TRUE, words |-> IF inWord THEN Append(words, cur) ELSE words]
    ELSE
      LET c == Head(str)
          rest == Tail(str)
      IN  CASE mode = "single" ->
                 IF c = "'" THEN shSplit(rest, "none", cur, TRUE, words)
                            ELSE shSplit(rest, "single", Append(cur, c), TRUE, words)
            [] mode = "double" ->
                 IF c = "\"" THEN shSplit(rest, "none", cur, TRUE, words)
                 ELSE IF c = "\\" /\ rest # <<>> /\ Head(rest) \in {"\"", "\\", "$"}
                   THEN shSplit(Tail(rest), "double", Append(cur, Head(rest)), TRUE, words)
                 ELSE IF c = "$" THEN [ok |-> FALSE, words |-> words]
                 ELSE shSplit(rest, "double", Append(cur, c), TRUE, words)
            [] OTHER ->
                 IF c = " "
                   THEN shSplit(rest, "none", <<>>, FALSE,
                                IF inWord THEN Append(words, cur) ELSE words)
                 ELSE IF c = "'" THEN shSplit(rest, "single", cur, TRUE, words)
                 ELSE IF c = "\"" THEN shSplit(rest, "double", cur, TRUE, words)
                 ELSE IF c = "\\"
                   THEN IF rest = <<>>
                          THEN shSplit(rest, "none", Append(cur, c), TRUE, words)
                          ELSE IF Head(rest) = "\n"
                            THEN shSplit(Tail(rest), "none", cur, inWord, words)
                            ELSE shSplit(Tail(rest), "none", Append(cur, Head(rest)),
                                         TRUE, words)
                 ELSE IF c \in {"$", "$PROMPT", "\n"}
                   THEN [ok |-> FALSE, words |-> words]
                 ELSE shSplit(rest, "none", Append(cur, c), TRUE, words)

posixWords(command) == shSplit(command, "none", <<>>, FALSE, <<>>)

\* the UTF-8 byte of a character (Buffer.from(finalPrompt, 'utf8'))
CharCode(c) ==
  CASE c = "a" -> 97
    [] c = "'" -> 39
    [] c = "\"" -> 34
    [] c = " " -> 32
    [] c = "\\" -> 92
    [] c = "$" -> 36
    [] c = "\n" -> 10

\* the base64 alphabet, by sextet value
Base64Alphabet ==
  <<
    "A", "B", "C", "D", "E", "F", "G", "H", "I", "J", "K", "L", "M", "N", "O", "P",
    "Q", "R", "S", "T", "U", "V", "W", "X", "Y", "Z", "a", "b", "c", "d", "e", "f",
    "g", "h", "i", "j", "k", "l", "m", "n", "o", "p", "q", "r", "s", "t", "u", "v",
    "w", "x", "y", "z", "0", "1", "2", "3", "4", "5", "6", "7", "8", "9", "+", "/">>

Base64Char(n) == Base64Alphabet[n + 1]

\* Buffer.prototype.toString('base64'): three bytes make four characters,
\* a last group of one or two bytes is padded with =
RECURSIVE toBase64(_)
toBase64(bytes) ==
  IF bytes = <<>> THEN <<>>
  ELSE IF Len(bytes) = 1
    THEN LET n == bytes[1] * 65536
         IN  <<Base64Char(n \div 262144), Base64Char((n \div 4096) % 64), "=", "=">>
  ELSE IF Len(bytes) = 2
    THEN LET n == bytes[1] * 65536 + bytes[2] * 256
         IN  <<Base64Char(n \div 262144), Base64Char((n \div 4096) % 64),
               Base64Char((n \div 64) % 64), "=">>
  ELSE LET n == bytes[1] * 65536 + bytes[2] * 256 + bytes[3]
       IN  <<Base64Char(n \div 262144), Base64Char((n \div 4096) % 64),
             Base64Char((n \div 64) % 64), Base64Char(n % 64)>>
             \o toBase64(SubSeq(bytes, 4, Len(bytes)))

\* Buffer.from(finalPrompt, 'utf8').toString('base64')
promptBase64(finalPrompt) ==
  toBase64([k \in 1..Len(finalPrompt) |-> CharCode(finalPrompt[k])])

\* the statement that fills PROMPT from PROMPT_B64
DECODE_STATEMENT == "PROMPT=$(printf %s \"$PROMPT_B64\" | base64 --decode);"

\* the adapters of the model run without a pseudo-terminal
needsPty(agentId) == FALSE

\* runAgentForChat from promptBase64 to commandToRun
runnerCommand(agentId, finalPrompt, options, mergeStderr) ==
  LET agentCmd == buildCommand(agentId, finalPrompt,
                               [options EXCEPT !.promptExpression = PROMPT_EXPRESSION])
      command == <<"PROMPT_B64=">> \o shellQuote(promptBase64(finalPrompt))
                   \o <<";", " ", DECODE_STATEMENT, " ">> \o agentCmd
  IN  IF mergeStderr THEN command \o <<" ", "2>&1">> ELSE command

\* values of the options: a session id or none, the runner's prompt
\* expression or none, a model name and a thinking level as the user set them
ModelValues == {NoString, <<"m">>, <<"m", "'", " ", "\\">>}

ThinkingValues == {NoString, <<"high">>}

BuildOptions ==
  [threadId : SessionIds \cup {undefined},
   promptExpression : {NoString, PROMPT_EXPRESSION},
   model : ModelValues,
   thinking : ThinkingValues]

InitShell ==
  /\ threads = EmptyMap
  /\ threadTurns = EmptyMap
  /\ queues = EmptyMap
  /\ tasks = <<>>
  /\ globalAgent = AGENT_CODEX
  /\ last = NoCall
  /\ migrations = NoMigrations
  /\ runs = <<>>
  /\ persists = <<>>
  /\ InitOther

\* a caller quotes a value
ShellQuoteCall(value) ==
  /\ last' = [op |-> "shellQuote", value |-> value, quoted |-> shellQuote(value)]
  /\ UNCHANGED <<configVars, menuVars, processVars, memoryEvents, threads,
                 threadTurns, queues, tasks, globalAgent, migrations, runs,
                 persists>>

\* a caller builds the command of an agent
BuildCommandCall(agentId, prompt, options) ==
  /\ last' = [op |-> "buildCommand", agentId |-> agentId, prompt |-> prompt,
              options |-> options, command |-> buildCommand(agentId, prompt, options)]
  /\ UNCHANGED <<configVars, menuVars, processVars, memoryEvents, threads,
                 threadTurns, queues, tasks, globalAgent, migrations, runs,
                 persists>>

\* the runner assembles the command of a turn
RunnerCommandCall(agentId, finalPrompt, options, mergeStderr) ==
  /\ options.promptExpression = NoString
  /\ last' = [op |-> "runnerCommand", agentId |-> agentId, prompt |-> finalPrompt,
              options |-> [options EXCEPT !.promptExpression = PROMPT_EXPRESSION],
              mergeStderr |-> mergeStderr,
              command |-> runnerCommand(agentId, finalPrompt, options, mergeStderr)]
  /\ UNCHANGED <<configVars, menuVars, processVars, memoryEvents, threads,
                 threadTurns, queues, tasks, globalAgent, migrations, runs,
                 persists>>

\* one call in a behaviour: the builders keep no state between calls
NextShell ==
  \/ last = NoCall /\ \E value \in Strings : ShellQuoteCall(value)
  \/ last = NoCall /\ \E a \in Agents, prompt \in Strings, options \in BuildOptions :
                         BuildCommandCall(a, prompt, options)
  \/ last = NoCall /\ \E a \in Agents, prompt \in Strings, options \in BuildOptions,
                            mergeStderr \in BOOLEAN :
                         RunnerCommandCall(a, prompt, options, mergeStderr)

SpecShell == InitShell /\ [][NextShell]_vars

(***************************************************************************)
(* SpecParse: the codex output parser.  The output is the sequence of its  *)
(* lines.  The agent writes one JSON record per line; among them may stand *)
(* lines that are no JSON: ones that do not start with a brace (log        *)
(* output) and ones that do (a record cut short, a brace-led log line).    *)
(***************************************************************************)
MaxLines == 3

\* item.channel when the record has none
NoChannel == "none"

MessageTexts == {<<"t1">>, <<"t2">>}

\* the records a line can hold, as JSON.parse returns them
Payloads ==
  {[type |-> "thread.started", thread_id |-> id, itemType |-> undefined,
    channel |-> NoChannel, text |-> NoString] : id \in {"s1", ""}}
    \cup {[type |-> "item.completed", thread_id |-> undefined,
           itemType |-> "agent_message", channel |-> ch, text |-> t] :
             ch \in {NoChannel, "final", "commentary"}, t \in MessageTexts}
    \cup {[type |-> "item.completed", thread_id |-> undefined,
           itemType |-> "reasoning", channel |-> NoChannel, text |-> <<"t1">>]}

NoPayload ==
  [type |-> undefined, thread_id |-> undefined, itemType |-> undefined,
   channel |-> NoChannel, text |-> NoString]

\* kinds of lines: "record" is one whole JSON record, "noise" does not start
\* with a brace, "broken" starts with a brace and is no JSON
OutputLines ==
  {[kind |-> "record", payload |-> pl] : pl \in Payloads}
    \cup {[kind |-> "noise", payload |-> NoPayload],
          [kind |-> "broken", payload |-> NoPayload]}

OutputStreams == UNION {[1..n -> OutputLines] : n \in 0..MaxLines}

\* line.startsWith('{')
startsWithBrace(line) == line.kind \in {"record", "broken"}

\* JSON.parse(buffer): the buffer is the lines joined so far; it parses when it
\* is exactly one record, and nothing appended to a broken line makes it JSON
jsonParse(buffer) ==
  IF Len(buffer) = 1 /\ buffer[1].kind = "record"
    THEN [ok |-> TRUE, payload |-> buffer[1].payload]
    ELSE [ok |-> FALSE, payload |-> NoPayload]

\* itemType.includes('message')
includesMessage(itemType) == itemType \in {"message", "agent_message"}

\* messages.join('\n')
RECURSIVE joinLines(_)
joinLines(messages) ==
  IF messages = <<>> THEN <<>>
  ELSE IF Len(messages) = 1 THEN messages[1]
  ELSE messages[1] \o <<"\n">> \o joinLines(Tail(messages))

\* the loop of parseCodexJsonOutput over the lines
RECURSIVE parseLines(_, _)
parseLines(lines, st) ==
  IF lines = <<>> THEN st
  ELSE
    LET line == Head(lines)
        rest == Tail(lines)
    IN  IF st.buffer = <<>> /\ ~startsWithBrace(line)
          THEN parseLines(rest, st)
          ELSE
            LET buffer == Append(st.buffer, line)
                parsed == jsonParse(buffer)
                payload == parsed.payload
            IN  IF ~parsed.ok
                  THEN parseLines(rest, [st EXCEPT !.buffer = buffer])
                ELSE IF payload.type = "thread.started" /\ Truthy(payload.thread_id)
                  THEN parseLines(rest, [st EXCEPT !.sawJson = TRUE, !.buffer = <<>>,
                                                   !.threadId = payload.thread_id])
                ELSE IF /\ payload.type = "item.completed"
                        /\ payload.text # NoString
                        /\ includesMessage(payload.itemType)
                  THEN parseLines(rest, [st EXCEPT !.sawJson = TRUE, !.buffer = <<>>,
                                                   !.messages = Append(@, payload.text)])
                ELSE parseLines(rest, [st EXCEPT !.sawJson = TRUE, !.buffer = <<>>])

\* parseCodexJsonOutput(output): { text, threadId, sawJson }
parseCodexJsonOutput(output) ==
  LET st == parseLines(output, [threadId |-> undefined, messages |-> <<>>,
                                sawJson |-> FALSE, buffer |-> <<>>])
  IN  [text |-> trim(joinLines(st.messages)), threadId |-> st.threadId,
       sawJson |-> st.sawJson]

\* a caller parses the output of an agent process
ParseOutputCall(output) ==
  /\ last' = [op |-> "parseOutput", output |-> output,
              parsed |-> parseCodexJsonOutput(output)]
  /\ UNCHANGED <<configVars, menuVars, processVars, memoryEvents, threads,
                 threadTurns, queues, tasks, globalAgent, migrations, runs,
                 persists>>

\* one call in a behaviour: the parser keeps no state between calls
NextParse ==
  last = NoCall /\ \E output \in OutputStreams : ParseOutputCall(output)

SpecParse == InitShell /\ [][NextParse]_vars

(***************************************************************************)
(* SpecConfig: the config store.  A config object is a function from the   *)
(* keys it has to their values; the text of a file is a sequence of        *)
(* tokens: an opening brace, one key-value pair per key, a closing brace.  *)
(* Calls of updateConfig may overlap, as handlers of different chats do.   *)
(***************************************************************************)
MaxConfigCalls == 2

ConfigKeys == {"agent", "agentCwd"}

ConfigValues == {"v1", "v2"}

\* the patches handlers pass: one key, or both
ConfigPatches ==
  UNION {[ks -> ConfigValues] : ks \in (SUBSET ConfigKeys) \ {{}}}

\* the order in which the keys of an object are written
ConfigKeyOrder == <<"agent", "agentCwd">>

\* JSON.stringify(config, null, 2)
RECURSIVE stringifyKeys(_, _)
stringifyKeys(config, keys) ==
  IF keys = <<>> THEN <<>>
  ELSE (IF Head(keys) \in DOMAIN config
          THEN <<<<Head(keys), config[Head(keys)]>>>> ELSE <<>>)
         \o stringifyKeys(config, Tail(keys))

stringify(config) == <<<<"{">>>> \o stringifyKeys(config, ConfigKeyOrder) \o <<<<"}">>>>

\* JSON.parse(raw): an object when the text is a brace, pairs, a brace
parseable(raw) ==
  /\ Len(raw) >= 2
  /\ raw[1] = <<"{">>
  /\ raw[Len(raw)] = <<"}">>
  /\ \A k \in 2..(Len(raw) - 1) : Len(raw[k]) = 2

RECURSIVE parsePairs(_, _)
parsePairs(pairs, config) ==
  IF pairs = <<>> THEN config
  ELSE parsePairs(Tail(pairs), MapSet(config, Head(pairs)[1], Head(pairs)[2]))

\* readConfig(): {} when the file is missing, blank or no JSON
readConfig(file) ==
  IF ~file.exists THEN EmptyMap
  ELSE IF file.raw = <<>> THEN EmptyMap
  ELSE IF parseable(file.raw)
    THEN parsePairs(SubSeq(file.raw, 2, Len(file.raw) - 1), EmptyMap)
    ELSE EmptyMap

\* an updateConfig that writes the patch alone
mergeConfigReplace(current, patch) == patch

\* { ...current, ...patch }
mergeConfig(current, patch) ==
  [k \in (DOMAIN current) \cup (DOMAIN patch) |->
     IF k \in DOMAIN patch THEN patch[k] ELSE current[k]]

ConfigCallIds == 1..Len(configCalls)

\* the call has neither returned nor thrown
ConfigInFlight(c) == c.pc \in {"read", "write", "rename"}

InitConfig ==
  /\ threads = EmptyMap
  /\ threadTurns = EmptyMap
  /\ queues = EmptyMap
  /\ tasks = <<>>
  /\ globalAgent = AGENT_CODEX
  /\ last = NoCall
  /\ migrations = NoMigrations
  /\ runs = <<>>
  /\ persists = <<>>
  /\ InitOther

\* updateConfig(patch) is called: readConfig starts reading the file
UpdateConfigCall(patch) ==
  /\ Len(configCalls) < MaxConfigCalls
  /\ LET overlaps == \E i \in ConfigCallIds : ConfigInFlight(configCalls[i])
     IN  configCalls' =
           Append([i \in ConfigCallIds |->
                     IF ConfigInFlight(configCalls[i])
                       THEN [configCalls[i] EXCEPT !.overlapped = TRUE]
                       ELSE configCalls[i]],
                  [pc |-> "read", patch |-> patch, next |-> EmptyMap,
                   overlapped |-> overlaps])
  /\ UNCHANGED <<threads, threadTurns, queues, tasks, globalAgent, last,
                 migrations, runs, persists, memoryEvents, configDir,
                 menuVars, processVars>>

\* readConfig returns; next = { ...current, ...patch }; writeConfig starts
ConfigReadDone(i) ==
  /\ configCalls[i].pc = "read"
  /\ configCalls' =
       [configCalls EXCEPT ![i].pc = "write",
                           ![i].next = mergeConfig(readConfig(configDir.config),
                                                   configCalls[i].patch)]
  /\ UNCHANGED <<threads, threadTurns, queues, tasks, globalAgent, last,
                 migrations, runs, persists, memoryEvents, configDir,
                 menuVars, processVars>>

\* fs.writeFile(tmpPath, JSON.stringify(config, null, 2)) completes
ConfigWriteTmpDone(i) ==
  /\ configCalls[i].pc = "write"
  /\ configDir' = [configDir EXCEPT
                     !.tmp = [exists |-> TRUE, raw |-> stringify(configCalls[i].next)]]
  /\ configCalls' = [configCalls EXCEPT ![i].pc = "rename"]
  /\ UNCHANGED <<threads, threadTurns, queues, tasks, globalAgent, last,
                 migrations, runs, persists, memoryEvents, menuVars,
                 processVars>>

\* fs.rename(tmpPath, CONFIG_PATH) completes and updateConfig returns next, or
\* fails because another call has renamed the file away, and updateConfig throws
ConfigRenameDone(i) ==
  /\ configCalls[i].pc = "rename"
  /\ IF configDir.tmp.exists
       THEN /\ configDir' = [config |-> configDir.tmp, tmp |-> NoFile]
            /\ configCalls' = [configCalls EXCEPT ![i].pc = "done"]
       ELSE /\ configCalls' = [configCalls EXCEPT ![i].pc = "failed",
                                                  ![i].next = EmptyMap]
            /\ UNCHANGED configDir
  /\ UNCHANGED <<threads, threadTurns, queues, tasks, globalAgent, last,
                 migrations, runs, persists, memoryEvents, menuVars,
                 processVars>>

NextConfig ==
  \/ \E patch \in ConfigPatches : UpdateConfigCall(patch)
  \/ \E i \in ConfigCallIds : ConfigReadDone(i)
  \/ \E i \in ConfigCallIds : ConfigWriteTmpDone(i)
  \/ \E i \in ConfigCallIds : ConfigRenameDone(i)

SpecConfig == InitConfig /\ [][NextConfig]_vars

(***************************************************************************)
(* SpecMenu: the keyboard menu of commands/settings.  A menu state is      *)
(* { createdAt, level, entries }, entries being the labels on the keyboard *)
(* with the project or session each one selects.  Each handler is one      *)
(* step; what its awaited collaborators yield is an input of the step.     *)
(***************************************************************************)
MaxClock == 3

\* the sessions attached from the menu in one behaviour
MaxAttach == 2

\* the time to live of a menu state, in units of the clock
MENU_NAV_TTL_MS == 1

\* texts a user sends: an ordinary message, and the label of a menu entry
MenuTexts == {"hola", "S1"}

\* what a label selects: a session (or the project of that session)
MenuEntries == {EmptyMap, [l \in {"S1"} |-> [id |-> "s1", cwd |-> "v1"]]}

MenuLevels == {"main", "projects", "sessions"}

\* menuNavKeyFromIds(chatId, topicId)
menuNavKeyFromIds(chatId, topicId) == buildTopicKey(chatId, topicId)

\* allowedUsers instanceof Set && allowedUsers.size > 0
canUseSensitiveCommands == allowedUsers # {}

\* cleanupMenuNavCache(): drops the states without createdAt and the ones
\* older than the time to live
cleanupMenuNavCache(cache, now) ==
  [k \in {x \in DOMAIN cache :
            cache[x].createdAt # 0 /\ now - cache[x].createdAt <= MENU_NAV_TTL_MS}
     |-> cache[k]]

\* what a call of the catch-all handler did
CatchAllCall(chatId, text, replies, nextCalls) ==
  [op |-> "catchAll", chatId |-> chatId, text |-> text,
   hadState |-> MapHas(menuNavCache, menuNavKeyFromIds(chatId, undefined)),
   replies |-> replies, nextCalls |-> nextCalls]

InitMenu ==
  /\ threads = EmptyMap
  /\ threadTurns = EmptyMap
  /\ queues = EmptyMap
  /\ tasks = <<>>
  /\ globalAgent \in Agents
  /\ last = NoCall
  /\ migrations = NoMigrations
  /\ runs = <<>>
  /\ persists = <<>>
  /\ memoryEvents = EmptyMap
  /\ configDir = [config |-> NoFile, tmp |-> NoFile]
  /\ configCalls = <<>>
  /\ menuNavCache = EmptyMap
  /\ clock = 1
  /\ allowedUsers \in {{}, {"1"}}
  /\ InitProcess

\* time passes
Tick ==
  /\ clock < MaxClock
  /\ clock' = clock + 1
  /\ UNCHANGED <<threads, threadTurns, queues, tasks, globalAgent, last,
                 migrations, runs, persists, memoryEvents, configVars,
                 menuNavCache, allowedUsers, processVars>>

\* /menu, Projects, Sesiones: a menu is shown and its state stored; entries is
\* what listLocalCodexSessions found.  Without ALLOWED_USERS the command is
\* denied; the lists are for the codex agent only.
ShowMenu(chatId, level, entries) ==
  /\ level = "main" => entries = EmptyMap
  /\ LET key == menuNavKeyFromIds(chatId, undefined)
         cleaned == IF level = "main" THEN menuNavCache
                                      ELSE cleanupMenuNavCache(menuNavCache, clock)
         shown == /\ canUseSensitiveCommands
                  /\ level # "main" => globalAgent = AGENT_CODEX
                  /\ level = "projects" => entries # EmptyMap
     IN  /\ menuNavCache' =
              IF ~canUseSensitiveCommands THEN menuNavCache
              ELSE IF shown
                THEN MapSet(cleaned, key, [createdAt |-> clock, level |-> level,
                                           entries |-> entries])
                ELSE cleaned
         /\ last' = [op |-> "showMenu", chatId |-> chatId, shown |-> shown]
  /\ UNCHANGED <<threads, threadTurns, queues, tasks, globalAgent, migrations,
                 runs, persists, memoryEvents, configVars, clock,
                 allowedUsers, processVars>>

\* the config file after updateConfig({ agentCwd: cwd }), run to its end
configAfterUpdate(dir, patch) ==
  [config |-> [exists |-> TRUE,
               raw |-> stringify(mergeConfig(readConfig(dir.config), patch))],
   tmp |-> NoFile]

\* bot.hears(/^.+$/): the catch-all of the keyboard menu.  configOk: whether
\* updateConfig succeeds; listed: the sessions of a selected project.
MenuCatchAll(chatId, text, configOk, listed) ==
  LET key == menuNavKeyFromIds(chatId, undefined)
      cleaned == cleanupMenuNavCache(menuNavCache, clock)
      state == cleaned[key]
      selected == state.entries[text]
      patch == [k \in {"agentCwd"} |-> selected.cwd]
      topicKey == buildTopicKey(chatId, undefined)
      passOn == /\ menuNavCache' = cleaned
                /\ last' = CatchAllCall(chatId, text, 0, 1)
                /\ UNCHANGED <<threads, threadTurns, persists, configDir>>
      replyOnly == /\ menuNavCache' = cleaned
                   /\ last' = CatchAllCall(chatId, text, 1, 0)
                   /\ UNCHANGED <<threads, threadTurns, persists, configDir>>
  IN  /\ Len(persists) < MaxAttach
      /\ IF ~canUseSensitiveCommands
           THEN \* denySensitiveCommand(ctx); return
                /\ last' = CatchAllCall(chatId, text, 1, 0)
                /\ UNCHANGED <<threads, threadTurns, persists, configDir, menuNavCache>>
         ELSE IF ~MapHas(cleaned, key) THEN passOn
         ELSE IF state.level = "projects"
           THEN IF ~MapHas(state.entries, text) THEN passOn
                ELSE IF globalAgent # AGENT_CODEX THEN replyOnly
                ELSE IF ~configOk THEN replyOnly
                ELSE \* showSessionsForProjectKeyboardMenu
                     /\ configDir' = configAfterUpdate(configDir, patch)
                     /\ menuNavCache' =
                          MapSet(cleaned, key,
                                 [createdAt |-> clock, level |-> "project_sessions",
                                  entries |-> listed])
                     /\ last' = CatchAllCall(chatId, text, 1, 0)
                     /\ UNCHANGED <<threads, threadTurns, persists>>
         ELSE IF state.level \notin {"project_sessions", "sessions"} THEN passOn
         ELSE IF ~MapHas(state.entries, text) THEN passOn
         ELSE IF globalAgent # AGENT_CODEX THEN replyOnly
         ELSE IF ~configOk
           THEN \* updateConfig throws: the cwd is set, the session is not attached
                replyOnly
         ELSE \* the session is attached
              /\ configDir' = configAfterUpdate(configDir, patch)
              /\ threads' = MapSet(threads, buildThreadKey(topicKey, globalAgent),
                                   selected.id)
              /\ threadTurns' = MapDelete(threadTurns,
                                          topicKey \o ":" \o globalAgent)
              /\ persists' = persistThreads(persists, 0)
              /\ menuNavCache' = MapSet(cleaned, key,
                                        [createdAt |-> clock, level |-> "main",
                                         entries |-> EmptyMap])
              /\ last' = CatchAllCall(chatId, text, 1, 0)
      /\ UNCHANGED <<queues, tasks, globalAgent, migrations, runs,
                     memoryEvents, configCalls, clock, allowedUsers,
                     processVars>>

NextMenu ==
  \/ Tick
  \/ \E c \in ChatIds, level \in MenuLevels, entries \in MenuEntries :
       ShowMenu(c, level, entries)
  \/ \E c \in ChatIds, text \in MenuTexts, configOk \in BOOLEAN,
         listed \in MenuEntries :
       MenuCatchAll(c, text, configOk, listed)

SpecMenu == InitMenu /\ [][NextMenu]_vars

(***************************************************************************)
(* SpecSessions: the commands and menu actions of commands/settings that   *)
(* clear or attach the session of a conversation, next to the turns of     *)
(* the runner.  Each handler is one step; what its caches and awaited      *)
(* collaborators yield is an input of the step.  A session id is a name    *)
(* standing for its characters.                                            *)
(***************************************************************************)
\* the most turns counted for one key
MaxTurns == 2

\* SESSION_ID_REGEX = /^[0-9a-f][0-9a-f-]{15,}$/i: the least number of
\* characters after the first
SESSION_ID_MIN_REST == 15

HexChars ==
  {"0", "1", "2", "3", "4", "5", "6", "7", "8", "9",
   "a", "b", "c", "d", "e", "f", "A", "B", "C", "D", "E", "F"}

\* ids a user types, a cache holds, or an older thread file carries
SessionInputs == {"", "s1", "s2", "s1 ", "short", "bad"}

\* the characters of an id
IdChars(id) ==
  CASE id = "s1" -> [i \in 1..(SESSION_ID_MIN_REST + 1) |-> "a"]
    [] id = "s2" -> [i \in 1..(SESSION_ID_MIN_REST + 2) |->
                       IF i = 9 THEN "-" ELSE "F"]
    [] id = "s1 " -> [i \in 1..(SESSION_ID_MIN_REST + 2) |->
                        IF i = SESSION_ID_MIN_REST + 2 THEN " " ELSE "a"]
    [] id = "short" -> [i \in 1..SESSION_ID_MIN_REST |-> "a"]
    [] id = "bad" -> [i \in 1..(SESSION_ID_MIN_REST + 1) |->
                        IF i = 1 THEN "-" ELSE "a"]
    [] OTHER -> <<>>

\* SESSION_ID_REGEX.test(text)
matchesSessionIdRegex(chars) ==
  /\ Len(chars) >= SESSION_ID_MIN_REST + 1
  /\ chars[1] \in HexChars
  /\ \A i \in 2..Len(chars) : chars[i] \in HexChars \cup {"-"}

\* if (!value) return false; return SESSION_ID_REGEX.test(String(value).trim())
isValidSessionId(value) ==
  IF ~Truthy(value) THEN FALSE ELSE matchesSessionIdRegex(trim(IdChars(value)))

\* setThreadForAgent(chatId, topicId, agentId, sessionId): the id is stored
\* under the canonical key of the conversation and agent
setThreadForAgent(map, chatId, agentId, sessionId) ==
  MapSet(map, buildThreadKey(chatId, agentId), sessionId)

\* a command that leaves the turn counter of the key in place
deleteThreadTurnsNever(turns, chatId, agentId) == turns

\* threadTurns.delete(`${buildTopicKey(chatId, topicId)}:${effectiveAgentId}`)
deleteThreadTurns(turns, chatId, agentId) ==
  MapDelete(turns, chatId \o ":" \o agentId)

SessionOps == {"session", "resumeLast", "menuAttach", "projectOpen",
               "newSession", "reset"}

\* what a handler did: the thread map and turn counters it found, the calls
\* of setThreadForAgent it made and whether it cleared the session
SessionCall(op, chatId, sets, cleared) ==
  [op |-> op, chatId |-> buildTopicKey(chatId, undefined),
   agentId |-> globalAgent, before |-> threads, turnsBefore |-> threadTurns,
   sets |-> sets, cleared |-> cleared, turnCount |-> 0]

\* the handler returns before it touches a session
SessionRejected(op, chatId) ==
  /\ last' = SessionCall(op, chatId, {}, FALSE)
  /\ UNCHANGED <<threads, threadTurns, persists>>

\* setThreadForAgent, threadTurns.delete, persistThreads().catch(...)
SessionAttached(op, chatId, sessionId) ==
  LET topicKey == buildTopicKey(chatId, undefined)
  IN  /\ threads' = setThreadForAgent(threads, topicKey, globalAgent, sessionId)
      /\ threadTurns' = deleteThreadTurns(threadTurns, topicKey, globalAgent)
      /\ persists' = persistThreads(persists, 0)
      /\ last' = SessionCall(op, chatId,
                             {[agentId |-> globalAgent, sessionId |-> sessionId]},
                             FALSE)

\* clearThreadForAgent, threadTurns.delete, persistThreads().catch(...)
SessionCleared(op, chatId) ==
  LET topicKey == buildTopicKey(chatId, undefined)
  IN  /\ threads' = clearThreadForAgent(threads, topicKey, globalAgent).threads
      /\ threadTurns' = deleteThreadTurns(threadTurns, topicKey, globalAgent)
      /\ persists' = persistThreads(persists, 0)
      /\ last' = SessionCall(op, chatId, {}, TRUE)

InitSessions ==
  /\ threads \in
       UNION {[ks -> {"s1", "bad"}] :
                ks \in SUBSET {getLegacyThreadKey(buildTopicKey(1, undefined)),
                               buildThreadKey(buildTopicKey(1, undefined),
                                              AGENT_CODEX)}}
  /\ threadTurns = EmptyMap
  /\ queues = EmptyMap
  /\ tasks = <<>>
  /\ globalAgent \in Agents
  /\ last = NoCall
  /\ migrations = NoMigrations
  /\ runs = <<>>
  /\ persists = <<>>
  /\ memoryEvents = EmptyMap
  /\ configDir = [config |-> NoFile, tmp |-> NoFile]
  /\ configCalls = <<>>
  /\ menuNavCache = EmptyMap
  /\ clock = 1
  /\ allowedUsers \in {{}, {"1"}}
  /\ InitProcess

\* bot.command('session') and bot.action(/^session_attach:(.+)$/)
SessionAttach(chatId, value) ==
  /\ Len(persists) < MaxAttach
  /\ IF ~canUseSensitiveCommands THEN SessionRejected("session", chatId)
     ELSE IF ~Truthy(value) THEN SessionRejected("session", chatId)
     ELSE IF ~isValidSessionId(value) THEN SessionRejected("session", chatId)
     ELSE IF globalAgent # AGENT_CODEX THEN SessionRejected("session", chatId)
     ELSE SessionAttached("session", chatId, value)
  /\ UNCHANGED <<configVars, menuVars, processVars, memoryEvents, queues, tasks,
                 globalAgent, migrations, runs>>

\* bot.hears(/^reanudar última$/i) and showResumeLast
ResumeLast(chatId) ==
  /\ Len(persists) < MaxAttach
  /\ IF ~canUseSensitiveCommands THEN SessionRejected("resumeLast", chatId)
     ELSE IF globalAgent # AGENT_CODEX THEN SessionRejected("resumeLast", chatId)
     ELSE LET topicKey == buildTopicKey(chatId, undefined)
              resolved == resolveThreadId(threads, topicKey, globalAgent)
              sessionId == IF Truthy(resolved.threadId) THEN resolved.threadId
                                                        ELSE ""
          IN  IF ~Truthy(sessionId) \/ ~isValidSessionId(sessionId)
                THEN /\ threads' = resolved.threads
                     /\ last' = SessionCall("resumeLast", chatId, {}, FALSE)
                     /\ UNCHANGED <<threadTurns, persists>>
                ELSE /\ threads' = setThreadForAgent(resolved.threads, topicKey,
                                                     globalAgent, sessionId)
                     /\ threadTurns' =
                          deleteThreadTurns(threadTurns, topicKey, globalAgent)
                     /\ persists' = persistThreads(persists, 0)
                     /\ last' = SessionCall("resumeLast", chatId,
                                            {[agentId |-> globalAgent,
                                              sessionId |-> sessionId]}, FALSE)
  /\ UNCHANGED <<configVars, menuVars, processVars, memoryEvents, queues, tasks,
                 globalAgent, migrations, runs>>

\* what a menu cache holds for a selection: nothing once it expired
CachedSessions ==
  {[found |-> FALSE, id |-> "", cwd |-> ""]}
    \cup [found : {TRUE}, id : SessionInputs, cwd : {"", "v1"}]

\* bot.action(/^menu_session_attach:.../) and the attach of the keyboard
\* catch-all: the selected session of the cache, then updateConfig
MenuSessionAttach(chatId, selected, configOk) ==
  /\ Len(persists) < MaxAttach
  /\ IF ~canUseSensitiveCommands THEN
          /\ SessionRejected("menuAttach", chatId)
          /\ UNCHANGED configDir
     ELSE IF globalAgent # AGENT_CODEX THEN
          /\ SessionRejected("menuAttach", chatId)
          /\ UNCHANGED configDir
     ELSE IF ~selected.found THEN
          /\ SessionRejected("menuAttach", chatId)
          /\ UNCHANGED configDir
     ELSE IF ~isValidSessionId(selected.id) THEN
          /\ SessionRejected("menuAttach", chatId)
          /\ UNCHANGED configDir
     ELSE IF selected.cwd # "" /\ ~configOk THEN
          /\ SessionRejected("menuAttach", chatId)
          /\ UNCHANGED configDir
     ELSE /\ SessionAttached("menuAttach", chatId, selected.id)
          /\ configDir' =
               IF selected.cwd # ""
                 THEN configAfterUpdate(configDir,
                                        [k \in {"agentCwd"} |-> selected.cwd])
                 ELSE configDir
  /\ UNCHANGED <<configCalls, menuVars, processVars, memoryEvents, queues, tasks,
                 globalAgent, migrations, runs>>

\* what the project picker holds for a selection: nothing once it expired
CachedProjects ==
  {[found |-> FALSE, latestSessionId |-> undefined, cwd |-> ""]}
    \cup [found : {TRUE}, latestSessionId : SessionInputs \cup {undefined},
          cwd : {"v1"}]

\* bot.action(/^project_open:.../): the project is stored, and its latest
\* session attached when it has a valid one
ProjectOpen(chatId, selected, configOk) ==
  /\ Len(persists) < MaxAttach
  /\ IF ~canUseSensitiveCommands THEN
          /\ SessionRejected("projectOpen", chatId)
          /\ UNCHANGED configDir
     ELSE IF ~selected.found THEN
          /\ SessionRejected("projectOpen", chatId)
          /\ UNCHANGED configDir
     ELSE IF globalAgent # AGENT_CODEX THEN
          /\ SessionRejected("projectOpen", chatId)
          /\ UNCHANGED configDir
     ELSE IF ~configOk THEN
          /\ SessionRejected("projectOpen", chatId)
          /\ UNCHANGED configDir
     ELSE /\ configDir' = configAfterUpdate(configDir,
                                            [k \in {"agentCwd"} |-> selected.cwd])
          /\ IF Truthy(selected.latestSessionId)
                /\ isValidSessionId(selected.latestSessionId)
               THEN SessionAttached("projectOpen", chatId, selected.latestSessionId)
               ELSE SessionRejected("projectOpen", chatId)
  /\ UNCHANGED <<configCalls, menuVars, processVars, memoryEvents, queues, tasks,
                 globalAgent, migrations, runs>>

\* bot.hears(/^nueva sesión$/i) and bot.action(/^menu_session_new:.../): the
\* session is cleared, then the project stored.  cwd: the project of the menu
\* state or cache, "" when there is none.
NewSession(chatId, cwd, configOk) ==
  /\ Len(persists) < MaxAttach
  /\ IF ~canUseSensitiveCommands THEN
          /\ SessionRejected("newSession", chatId)
          /\ UNCHANGED configDir
     ELSE IF globalAgent # AGENT_CODEX THEN
          /\ SessionRejected("newSession", chatId)
          /\ UNCHANGED configDir
     ELSE IF cwd = "" THEN
          /\ SessionRejected("newSession", chatId)
          /\ UNCHANGED configDir
     ELSE /\ SessionCleared("newSession", chatId)
          /\ configDir' =
               IF configOk
                 THEN configAfterUpdate(configDir, [k \in {"agentCwd"} |-> cwd])
                 ELSE configDir
  /\ UNCHANGED <<configCalls, menuVars, processVars, memoryEvents, queues, tasks,
                 globalAgent, migrations, runs>>

\* bot.command('reset') of commands/settings, up to its first await
SessionReset(chatId) ==
  /\ Len(persists) < MaxAttach
  /\ SessionCleared("reset", chatId)
  /\ UNCHANGED <<configVars, menuVars, processVars, memoryEvents, queues, tasks,
                 globalAgent, migrations, runs>>

\* a turn of the runner for the conversation, up to its first await
SessionTurn(chatId) ==
  LET topicKey == buildTopicKey(chatId, undefined)
      r == resolveThreadId(threads, topicKey, globalAgent)
      turnCount == nextTurnCount(threadTurns, r.threadKey)
  IN  /\ turnCount <= MaxTurns
      /\ r.migrated => Len(persists) < MaxAttach
      /\ threads' = r.threads
      /\ threadTurns' = MapSet(threadTurns, r.threadKey, turnCount)
      /\ persists' = IF r.migrated THEN persistThreads(persists, 0) ELSE persists
      /\ last' = [SessionCall("turn", chatId, {}, FALSE) EXCEPT
                    !.turnCount = turnCount]
      /\ UNCHANGED <<configVars, menuVars, processVars, memoryEvents, queues,
                     tasks, globalAgent, migrations, runs>>

\* /agent <name>: the global agent changes
SessionAgent(agent) ==
  /\ agent # globalAgent
  /\ globalAgent' = agent
  /\ last' = [SessionCall("agent", 1, {}, FALSE) EXCEPT !.agentId = agent]
  /\ UNCHANGED <<configVars, menuVars, processVars, memoryEvents, threads,
                 threadTurns, queues, tasks, migrations, runs, persists>>

NextSessions ==
  \/ \E c \in {1}, value \in SessionInputs : SessionAttach(c, value)
  \/ \E c \in {1} : ResumeLast(c)
  \/ \E c \in {1}, selected \in CachedSessions, configOk \in BOOLEAN :
       MenuSessionAttach(c, selected, configOk)
  \/ \E c \in {1}, selected \in CachedProjects, configOk \in BOOLEAN :
       ProjectOpen(c, selected, configOk)
  \/ \E c \in {1}, cwd \in {"", "v1"}, configOk \in BOOLEAN :
       NewSession(c, cwd, configOk)
  \/ \E c \in {1} : SessionReset(c)
  \/ \E c \in {1} : SessionTurn(c)
  \/ \E agent \in Agents : SessionAgent(agent)

SpecSessions == InitSessions /\ [][NextSessions]_vars

(***************************************************************************)
(* SpecStartup: index.js starts loadThreads() and calls bot.launch()       *)
(* without awaiting it.  `threads` is bound to the Map of appState until   *)
(* the load resolves and to the loaded Map from then on; a call of         *)
(* runAgentForChat keeps the Map that getThreads() returned when it began. *)
(***************************************************************************)
InitStartup ==
  /\ threads = EmptyMap
  /\ threadTurns = EmptyMap
  /\ queues = EmptyMap
  /\ tasks = <<>>
  /\ globalAgent = AGENT_CODEX
  /\ last = NoCall
  /\ migrations = NoMigrations
  /\ runs = <<>>
  /\ persists = <<>>
  /\ memoryEvents = EmptyMap
  /\ configDir = [config |-> NoFile, tmp |-> NoFile]
  /\ configCalls = <<>>
  /\ menuNavCache = EmptyMap
  /\ clock = 1
  /\ allowedUsers = {}
  /\ threadsLoaded = FALSE
  /\ initialThreads = EmptyMap
  /\ saves = EmptyMap
  /\ threadsFile = EmptyMap
  /\ shutdownStarted = FALSE
  /\ shutdownSeq = [runs |-> 0, pc |-> "idle", pending |-> {}, drainTimedOut |-> FALSE]
  /\ signalsHandled = {}
  /\ memoryEventsSinceCurate = 0
  /\ memoryPersist = <<>>

\* loadThreads().then((loaded) => { threads = loaded }): the Map bound so far
\* lives on in the calls that hold it
LoadThreadsDone(loaded) ==
  /\ ~threadsLoaded
  /\ threadsLoaded' = TRUE
  /\ initialThreads' = threads
  /\ threads' = loaded
  /\ UNCHANGED <<configVars, menuVars, saveVars, shutdownVars, curateVars, memoryEvents,
                 threadTurns, queues, tasks, globalAgent, last, migrations, runs,
                 persists>>

\* runAgentForChat up to its first await: const threads = getThreads(),
\* resolve, turn count, and the persist after a migration
StartupRunStart(agentId) ==
  /\ Len(runs) < MaxRuns
  /\ LET r == resolveThreadId(threads, RunnerScope, agentId)
         id == Len(runs) + 1
     IN  /\ threads' = r.threads
         /\ threadTurns' = MapSet(threadTurns, r.threadKey,
                                  nextTurnCount(threadTurns, r.threadKey))
         /\ persists' = IF r.migrated THEN persistThreads(persists, id) ELSE persists
         /\ runs' = Append(runs, [pc |-> "exec", agentId |-> agentId,
                                  map |-> IF threadsLoaded THEN "loaded" ELSE "initial",
                                  stored |-> undefined])
  /\ UNCHANGED <<configVars, menuVars, processVars, memoryEvents, queues, tasks,
                 globalAgent, last, migrations>>

\* the execution returns with a session id or none: threads.set on the Map the
\* call holds, persistThreads() on the Map `threads` is bound to, return
StartupRunDone(i, parsedThreadId) ==
  /\ runs[i].pc = "exec"
  /\ LET threadKey == buildThreadKey(RunnerScope, runs[i].agentId)
         stale == runs[i].map = "initial" /\ threadsLoaded
     IN  /\ IF stale
              THEN /\ initialThreads' =
                        persistParsedThread(initialThreads, threadKey, parsedThreadId)
                   /\ UNCHANGED threads
              ELSE /\ threads' = persistParsedThread(threads, threadKey, parsedThreadId)
                   /\ UNCHANGED initialThreads
         /\ persists' = IF Truthy(parsedThreadId)
                          THEN persistThreads(persists, i) ELSE persists
         /\ runs' = [runs EXCEPT ![i].pc = "returned", ![i].stored = parsedThreadId]
  /\ UNCHANGED <<configVars, menuVars, saveVars, shutdownVars, curateVars, memoryEvents,
                 threadTurns, queues, tasks, globalAgent, last, migrations,
                 threadsLoaded>>

NextStartup ==
  \/ \E loaded \in RunnerThreadMaps : LoadThreadsDone(loaded)
  \/ \E a \in Agents : StartupRunStart(a)
  \/ \E i \in RunIds, id \in SessionIds \cup {undefined} : StartupRunDone(i, id)

SpecStartup == InitStartup /\ [][NextStartup]_vars

(***************************************************************************)
(* SpecPersist: persistThreads.  Handlers change the thread map and call   *)
(* persistThreads(); each call chains a save after the promise of the call *)
(* before it.  A save is followed from the moment saveThreads(threads) is  *)
(* called to the moment its promise settles.                               *)
(***************************************************************************)
MaxSaves == 3

\* a chain that calls saveThreads at once, whatever the earlier saves do
persistReadyUnchained(ps, k) == TRUE

\* threadsPersist.catch(() => {}).then(() => saveThreads(threads)): the save
\* of call k runs once the promise of call k - 1 has settled, either way
persistReady(ps, k) ==
  IF k = 1 THEN TRUE ELSE ps[k - 1].state \in {"fulfilled", "rejected"}

\* what saveThreads is handed and writes: the entries of the map
saveThreads(map) == map

InitPersist ==
  /\ threads = EmptyMap
  /\ threadTurns = EmptyMap
  /\ queues = EmptyMap
  /\ tasks = <<>>
  /\ globalAgent = AGENT_CODEX
  /\ last = NoCall
  /\ migrations = NoMigrations
  /\ runs = <<>>
  /\ persists = <<>>
  /\ InitOther

\* runAgentForChat stores a session id: threads.set(threadKey, id) and
\* persistThreads()
PersistAfterStore(agentId, id) ==
  /\ Len(persists) < MaxSaves
  /\ threads' = MapSet(threads, buildThreadKey(RunnerScope, agentId), id)
  /\ persists' = persistThreads(persists, 0)
  /\ UNCHANGED <<configVars, menuVars, processVars, memoryEvents, threadTurns,
                 queues, tasks, globalAgent, last, migrations, runs>>

\* bot.command('reset'): clearThreadForAgent, threadTurns.delete and
\* persistThreads()
PersistAfterReset(agentId) ==
  /\ Len(persists) < MaxSaves
  /\ threads' = clearThreadForAgent(threads, RunnerScope, agentId).threads
  /\ threadTurns' = MapDelete(threadTurns, RunnerScope \o ":" \o agentId)
  /\ persists' = persistThreads(persists, 0)
  /\ UNCHANGED <<configVars, menuVars, processVars, memoryEvents, queues, tasks,
                 globalAgent, last, migrations, runs>>

\* the chain reaches call k: saveThreads(threads) is called
SaveStart(k) ==
  /\ persists[k].state = "pending"
  /\ persistReady(persists, k)
  /\ persists' = [persists EXCEPT ![k].state = "saving"]
  /\ saves' = MapSet(saves, k, saveThreads(threads))
  /\ UNCHANGED <<configVars, menuVars, startupVars, shutdownVars, curateVars, memoryEvents,
                 threads, threadTurns, queues, tasks, globalAgent, last, migrations,
                 runs, threadsFile>>

\* the save of call k fulfils, the file written, or rejects
SaveSettled(k, ok) ==
  /\ persists[k].state = "saving"
  /\ persists' = [persists EXCEPT ![k].state = IF ok THEN "fulfilled" ELSE "rejected"]
  /\ threadsFile' = IF ok THEN saves[k] ELSE threadsFile
  /\ UNCHANGED <<configVars, menuVars, startupVars, shutdownVars, curateVars, memoryEvents,
                 threads, threadTurns, queues, tasks, globalAgent, last, migrations,
                 runs, saves>>

NextPersist ==
  \/ \E a \in Agents, id \in SessionIds : PersistAfterStore(a, id)
  \/ \E a \in Agents : PersistAfterReset(a)
  \/ \E k \in 1..Len(persists) : SaveStart(k)
  \/ \E k \in 1..Len(persists), ok \in BOOLEAN : SaveSettled(k, ok)

SpecPersist == InitPersist /\ [][NextPersist]_vars

(***************************************************************************)
(* SpecShutdown: shutdown(signal).  The process has jobs at their reply    *)
(* and persistence promises pending; they settle or they never do.  The    *)
(* timers are untimed events with the order their delays give: the force   *)
(* timer (drain timeout + 2000 ms) comes due before the 2000 ms timer of   *)
(* the persistence wait exactly when the drain wait ended by its timeout.  *)
(***************************************************************************)
Signals == {"SIGINT", "SIGTERM"}

\* the most jobs in flight when the signal arrives
MaxJobs == 2

\* a job of conversation c at its reply, chained alone under its key
JobAtReply(c) ==
  NewTask("text", c, buildTopicKey(c, undefined), undefined, "reply")

InitShutdown ==
  /\ threads = EmptyMap
  /\ threadTurns = EmptyMap
  /\ \E n \in 0..MaxJobs :
       /\ tasks = [c \in 1..n |-> JobAtReply(c)]
       /\ queues = [k \in {buildTopicKey(c, undefined) : c \in 1..n} |->
                      CHOOSE c \in 1..n : buildTopicKey(c, undefined) = k]
  /\ globalAgent = AGENT_CODEX
  /\ last = NoCall
  /\ migrations = NoMigrations
  /\ runs = <<>>
  /\ persists \in {<<>>, persistThreads(<<>>, 0)}
  /\ InitOther

\* a shutdown that does not look at shutdownStarted
shutdownReturnsEarlyNever(started) == FALSE

\* if (shutdownStarted) return
shutdownReturnsEarly(started) == started

\* a signal arrives and its process.once listener calls shutdown(signal):
\* once past the guard, the flag is set, the force timer armed, and the
\* drain starts with Array.from(queues.values())
Signal(signal) ==
  /\ signal \notin signalsHandled
  /\ signalsHandled' = signalsHandled \cup {signal}
  /\ IF shutdownReturnsEarly(shutdownStarted)
       THEN UNCHANGED <<shutdownStarted, shutdownSeq>>
       ELSE LET pending == {queues[k] : k \in DOMAIN queues}
            IN  /\ shutdownStarted' = TRUE
                /\ shutdownSeq' = [runs |-> shutdownSeq.runs + 1,
                                   pc |-> IF pending = {} THEN "persistWait"
                                                          ELSE "drain",
                                   pending |-> pending, drainTimedOut |-> FALSE]
  /\ UNCHANGED <<configVars, menuVars, startupVars, saveVars, curateVars,
                 memoryEvents, threads,
                 threadTurns, queues, tasks, globalAgent, last, migrations, runs,
                 persists>>

\* Promise.allSettled(pending) wins the race of the drain wait
DrainSettled ==
  /\ shutdownSeq.pc = "drain"
  /\ \A i \in shutdownSeq.pending : Settled(tasks[i])
  /\ shutdownSeq' = [shutdownSeq EXCEPT !.pc = "persistWait", !.pending = {}]
  /\ UNCHANGED <<configVars, menuVars, startupVars, saveVars, curateVars,
                 memoryEvents, threads,
                 threadTurns, queues, tasks, globalAgent, last, migrations, runs,
                 persists, shutdownStarted, signalsHandled>>

\* the timer of SHUTDOWN_DRAIN_TIMEOUT_MS wins the race of the drain wait
DrainTimeout ==
  /\ shutdownSeq.pc = "drain"
  /\ shutdownSeq' = [shutdownSeq EXCEPT !.pc = "persistWait", !.pending = {},
                                        !.drainTimedOut = TRUE]
  /\ UNCHANGED <<configVars, menuVars, startupVars, saveVars, curateVars,
                 memoryEvents, threads,
                 threadTurns, queues, tasks, globalAgent, last, migrations, runs,
                 persists, shutdownStarted, signalsHandled>>

\* how the process ends: .finally(() => process.exit(0)) after the
\* persistence wait was won by allSettled or by its 2000 ms timer, or the
\* force timer's process.exit(0)
ProcessExit(how) ==
  /\ shutdownSeq.pc = "persistWait"
  /\ CASE how = "settled" ->
             \A k \in 1..Len(persists) : persists[k].state # "pending"
        [] how = "timeout" -> ~shutdownSeq.drainTimedOut
        [] how = "force" -> shutdownSeq.drainTimedOut
  /\ shutdownSeq' = [shutdownSeq EXCEPT !.pc = "exited"]
  /\ UNCHANGED <<configVars, menuVars, startupVars, saveVars, curateVars,
                 memoryEvents, threads,
                 threadTurns, queues, tasks, globalAgent, last, migrations, runs,
                 persists, shutdownStarted, signalsHandled>>

\* what can happen while the process lives: signals, the steps of shutdown,
\* and the jobs and persistence promises settling
NextShutdown ==
  /\ shutdownSeq.pc # "exited"
  /\ \/ \E signal \in Signals : Signal(signal)
     \/ DrainSettled
     \/ DrainTimeout
     \/ \E how \in {"settled", "timeout", "force"} : ProcessExit(how)
     \/ \E i \in TaskIds, ok \in BOOLEAN : ReplyDone(i, ok)
     \/ \E i \in TaskIds, ok \in BOOLEAN : ErrorReplyDone(i, ok)
     \/ \E k \in 1..Len(persists), ok \in BOOLEAN : PersistSettled(k, ok)

\* timers fire and settled promises run their continuations; nothing makes
\* a job or a persistence promise settle, or a signal arrive
FairShutdown ==
  /\ WF_vars(DrainSettled)
  /\ WF_vars(DrainTimeout)
  /\ WF_vars(\E how \in {"settled", "timeout", "force"} : ProcessExit(how))

SpecShutdown == InitShutdown /\ [][NextShutdown]_vars /\ FairShutdown

(***************************************************************************)
(* SpecCurate: the count of memory events since the last curation and the  *)
(* curations chained on memoryPersist.  A task of the chain runs once the  *)
(* tasks before it have settled; whether curateMemory succeeds is an input *)
(* of the step.                                                            *)
(***************************************************************************)
\* the configured number of events between two automatic curations
memoryCurateEvery == 2

\* the most curations scheduled in one behaviour
MaxCurations == 3

\* maybeAutoCurateMemory that resets the count one event late
maybeAutoCurateMemoryLate(count) ==
  IF count + 1 <= memoryCurateEvery
    THEN [count |-> count + 1, scheduled |-> FALSE]
    ELSE [count |-> 0, scheduled |-> TRUE]

\* nextCount = get() + 1; set(nextCount); if (nextCount < memoryCurateEvery)
\* return; set(0); persistMemory(...).catch(...): the count afterwards and
\* whether a curation was scheduled
maybeAutoCurateMemory(count) ==
  LET nextCount == count + 1
  IN  IF nextCount < memoryCurateEvery
        THEN [count |-> nextCount, scheduled |-> FALSE]
        ELSE [count |-> 0, scheduled |-> TRUE]

\* persistMemory(task): the task is chained after the ones before it
persistMemory(chain, kind) ==
  Append(chain, [kind |-> kind, state |-> "pending", failed |-> FALSE])

\* how the promise of a task settles.  The automatic curation awaits
\* curateMemory inside try/catch; the others return its promise.
curationOutcome(kind, ok) ==
  IF kind = "auto" \/ ok THEN "fulfilled" ELSE "rejected"

InitCurate ==
  /\ threads = EmptyMap
  /\ threadTurns = EmptyMap
  /\ queues = EmptyMap
  /\ tasks = <<>>
  /\ globalAgent = AGENT_CODEX
  /\ last = NoCall
  /\ migrations = NoMigrations
  /\ runs = <<>>
  /\ persists = <<>>
  /\ InitOther

\* captureMemoryEvent(event): await appendMemoryEvent, then
\* maybeAutoCurateMemory(); a failed append is logged and nothing is counted
CaptureMemoryEvent(appendOk) ==
  LET r == maybeAutoCurateMemory(memoryEventsSinceCurate)
  IN  /\ (appendOk /\ r.scheduled) => Len(memoryPersist) < MaxCurations
      /\ IF appendOk
           THEN /\ memoryEventsSinceCurate' = r.count
                /\ memoryPersist' = IF r.scheduled
                                      THEN persistMemory(memoryPersist, "auto")
                                      ELSE memoryPersist
                /\ last' = [op |-> "capture", counted |-> TRUE,
                            before |-> memoryEventsSinceCurate,
                            scheduled |-> r.scheduled, threw |-> FALSE]
           ELSE /\ UNCHANGED curateVars
                /\ last' = [op |-> "capture", counted |-> FALSE,
                            before |-> memoryEventsSinceCurate,
                            scheduled |-> FALSE, threw |-> FALSE]
      /\ UNCHANGED <<configVars, menuVars, startupVars, saveVars, shutdownVars,
                     memoryEvents, threads, threadTurns, queues, tasks,
                     globalAgent, migrations, runs, persists>>

\* /reset and /memory curate: await persistMemory(() => curateMemory())
CurateCommand ==
  /\ Len(memoryPersist) < MaxCurations
  /\ memoryPersist' = persistMemory(memoryPersist, "command")
  /\ last' = [op |-> "curateCommand", counted |-> FALSE,
              before |-> memoryEventsSinceCurate, scheduled |-> TRUE,
              threw |-> FALSE]
  /\ UNCHANGED <<configVars, menuVars, startupVars, saveVars, shutdownVars,
                 memoryEvents, threads, threadTurns, queues, tasks, globalAgent,
                 migrations, runs, persists, memoryEventsSinceCurate>>

\* the k-th task of the chain runs and curateMemory fulfils or rejects; the
\* command that awaited it sets the count to 0 when it fulfilled
CurationSettled(k, ok) ==
  /\ memoryPersist[k].state = "pending"
  /\ persistReady(memoryPersist, k)
  /\ memoryPersist' =
       [memoryPersist EXCEPT ![k].state = curationOutcome(memoryPersist[k].kind, ok),
                             ![k].failed = ~ok]
  /\ memoryEventsSinceCurate' =
       IF memoryPersist[k].kind = "command" /\ ok THEN 0
                                                  ELSE memoryEventsSinceCurate
  /\ last' = [op |-> "curation", counted |-> FALSE,
              before |-> memoryEventsSinceCurate, scheduled |-> FALSE,
              threw |-> memoryPersist[k].kind = "auto"
                          /\ curationOutcome(memoryPersist[k].kind, ok) = "rejected"]
  /\ UNCHANGED <<configVars, menuVars, startupVars, saveVars, shutdownVars,
                 memoryEvents, threads, threadTurns, queues, tasks, globalAgent,
                 migrations, runs, persists>>

NextCurate ==
  \/ \E appendOk \in BOOLEAN : CaptureMemoryEvent(appendOk)
  \/ CurateCommand
  \/ \E k \in 1..Len(memoryPersist), ok \in BOOLEAN : CurationSettled(k, ok)

SpecCurate == InitCurate /\ [][NextCurate]_vars

(***************************************************************************)
(* Properties.                                                             *)
(***************************************************************************)
\* tasks i, j were passed to enqueue in this order by text handlers of one
\* conversation, that is under one queue key
SameKeyInOrder(i, j) ==
  /\ i < j
  /\ tasks[i].kind = "text"
  /\ tasks[j].kind = "text"
  /\ tasks[i].chatId = tasks[j].chatId

\* the task's first side effect (the runner's resolve and turn count) has happened
Committed(t) == t.pc \notin {"queued", "captureUser"}

\* C1: per-key mutual exclusion: a task enqueued under a key has started only
\* if every task enqueued earlier under that key has settled, so no two tasks
\* of one key are ever executing at the same time.
C1_MutualExclusion ==
  \A i, j \in TaskIds :
    SameKeyInOrder(i, j) =>
      /\ (tasks[j].pc # "queued" => Settled(tasks[i]))
      /\ ~(Running(tasks[i]) /\ Running(tasks[j]))

\* C1 witness: the second task of a key is executing, after the first settled
C1_Witness ==
  \E i, j \in TaskIds :
    SameKeyInOrder(i, j) /\ Settled(tasks[i]) /\ tasks[j].pc = "exec"

\* C2: per-key FIFO: in every step in which a task of a key starts, every task
\* enqueued earlier under that key has already started, and in every step in
\* which it commits its first side effect, every earlier one has committed its.
C2_Fifo ==
  [][\A i, j \in TaskIds :
       SameKeyInOrder(i, j) =>
         /\ (tasks[j].pc = "queued" /\ tasks'[j].pc # "queued"
               => tasks[i].pc # "queued")
         /\ (~Committed(tasks[j]) /\ Committed(tasks'[j])
               => Committed(tasks[i]))]_vars

\* C2 witness: both tasks of a key have committed, the later one still at work
C2_Witness ==
  \E i, j \in TaskIds :
    SameKeyInOrder(i, j) /\ Committed(tasks[i]) /\ tasks[j].pc = "captureAssistant"

\* C3: failure isolation: a task's promise rejects only out of that task's own
\* failing error path, and a queued task whose predecessor rejected can start.
C3_FailureIsolation ==
  /\ [](\A j \in TaskIds :
          (tasks[j].pc = "queued" /\ tasks[j].prev # 0
             /\ tasks[tasks[j].prev].pc = "rejected")
            => ENABLED StartTask(j))
  /\ [][\A j \in TaskIds :
          (tasks[j].pc # "rejected" /\ tasks'[j].pc = "rejected")
            => tasks[j].pc = "errorReply"]_vars

\* C3 witness: a task runs to fulfilment after its predecessor rejected
C3_Witness ==
  \E i, j \in TaskIds :
    /\ SameKeyInOrder(i, j)
    /\ tasks[i].pc = "rejected"
    /\ tasks[j].pc = "fulfilled"

\* the step is task i's runner obtaining session id and returning
RunnerReturns(i) ==
  /\ InRunner(tasks[i])
  /\ tasks'[i].pc = "captureAssistant"

\* the step is task j's runner resolving its session
RunnerResolves(j) ==
  /\ tasks[j].pc = "captureUser"
  /\ tasks'[j].pc = "exec"

\* C4 (as claimed): session continuity: (a) when a turn resolves its session,
\* no turn submitted before it for the same conversation and agent is still
\* inside the runner, its session id not yet stored; (b) a turn that resolves
\* while the canonical key holds a session id hands exactly that id to
\* buildCommand; (c) a turn that obtained a session id, directly or through
\* the listing fallback, has stored it under its canonical key in the step in
\* which its runner returns.
C4_SessionContinuity ==
  [][\A j \in TaskIds :
       /\ RunnerResolves(j) =>
            /\ \A i \in TaskIds :
                 (i < j /\ InRunner(tasks[i]))
                   => TaskThreadKey(tasks[i]) # TaskThreadKey(tasks'[j])
            /\ LET key == TaskThreadKey(tasks'[j])
               IN  MapHas(threads, key) => tasks'[j].threadId = threads[key]
       /\ (RunnerReturns(j) /\ Truthy(tasks'[j].parsedThreadId)) =>
            MapGet(threads', TaskThreadKey(tasks[j])) = tasks'[j].parsedThreadId]_vars

\* C5 (as claimed): at most one runAgentForChat execution is in flight for a
\* conversation key, over all entry points.
C5_SingleWorkerStream ==
  \A i, j \in TaskIds :
    (i # j /\ InRunner(tasks[i]) /\ InRunner(tasks[j]))
      => TaskThreadKey(tasks[i]) # TaskThreadKey(tasks[j])

\* the keys at which two maps differ
ChangedKeys(m1, m2) ==
  {k \in (DOMAIN m1) \cup (DOMAIN m2) : MapGet(m1, k) # MapGet(m2, k)}

\* MapGet on a turn counter map yields a number or undefined: compare presence first
ChangedTurnKeys(m1, m2) ==
  {k \in (DOMAIN m1) \cup (DOMAIN m2) :
     \/ MapHas(m1, k) # MapHas(m2, k)
     \/ (MapHas(m1, k) /\ MapHas(m2, k) /\ m1[k] # m2[k])}

\* C6 (as claimed): every step that changes the thread map or the turn
\* counters is a step of a queue task that is executing, and changes only
\* the keys of that task's conversation.
C6_OnlyRunnerMutates ==
  [][(threads' # threads \/ threadTurns' # threadTurns) =>
       \E i \in TaskIds :
         /\ tasks[i].kind = "text"
         /\ Running(tasks[i])
         /\ tasks'[i] # tasks[i]
         /\ LET scope == buildTopicKey(tasks[i].chatId, undefined)
                owned == {getLegacyThreadKey(scope)}
                           \cup {buildThreadKey(scope, a) : a \in Agents}
            IN  ChangedKeys(threads, threads') \cup
                  ChangedTurnKeys(threadTurns, threadTurns') \subseteq owned]_vars

\* C7: independence of keys: a queued task can start as soon as every task
\* enqueued earlier for its own conversation has settled, whatever tasks of
\* other conversations are doing.
C7_KeyIndependence ==
  \A j \in TaskIds :
    (tasks[j].pc = "queued"
       /\ \A i \in TaskIds : SameKeyInOrder(i, j) => Settled(tasks[i]))
      => ENABLED StartTask(j)

\* C7 witness: tasks of two conversations are in flight at the same time
C7_Witness ==
  \E i, j \in TaskIds :
    /\ i < j
    /\ tasks[i].chatId # tasks[j].chatId
    /\ tasks[i].pc = "exec"
    /\ tasks[j].pc = "exec"

\* C8: resolve on a map with neither the canonical nor the legacy entry returns
\* no session id and migrated = false; resolve on a map holding a session id
\* under the canonical key returns that id with migrated = false and leaves it
\* stored.
C8_ResolveStored ==
  last.op = "resolve" =>
    LET threadKey == buildThreadKey(last.chatId, last.agentId)
        legacyKey == getLegacyThreadKey(last.chatId)
    IN  /\ (~MapHas(last.before, threadKey) /\ ~MapHas(last.before, legacyKey))
             => (last.threadId = undefined /\ ~last.migrated)
        /\ MapHas(last.before, threadKey)
             => /\ last.threadId = last.before[threadKey]
                /\ ~last.migrated
                /\ MapGet(threads, threadKey) = last.before[threadKey]

\* C8 witness: a resolve returned the canonical id although the conversation
\* also had a different legacy entry
C8_Witness ==
  /\ last.op = "resolve"
  /\ MapHas(last.before, buildThreadKey(last.chatId, last.agentId))
  /\ MapHas(last.before, getLegacyThreadKey(last.chatId))
  /\ last.before[getLegacyThreadKey(last.chatId)] # last.threadId
  /\ last.threadId \in SessionIds

\* C9: legacy migration: resolve on a map with the legacy entry and no
\* canonical entry returns the legacy value with migrated = true, leaves it
\* under the canonical key and the legacy key deleted; the resolve that follows
\* immediately returns the same value with migrated = false.
C9_LegacyMigration ==
  (/\ last.op = "resolve"
   /\ ~MapHas(last.before, buildThreadKey(last.chatId, last.agentId))
   /\ MapHas(last.before, getLegacyThreadKey(last.chatId)))
    => LET legacy == last.before[getLegacyThreadKey(last.chatId)]
           again == resolveThreadId(threads, last.chatId, last.agentId)
       IN  /\ last.threadId = legacy
           /\ last.migrated
           /\ MapGet(threads, buildThreadKey(last.chatId, last.agentId)) = legacy
           /\ ~MapHas(threads, getLegacyThreadKey(last.chatId))
           /\ again.threadId = legacy
           /\ ~again.migrated
           /\ again.threads = threads

\* C9 witness: a resolve has just migrated a legacy-only entry
C9_Witness ==
  /\ last.op = "resolve"
  /\ last.migrated
  /\ DOMAIN last.before = {getLegacyThreadKey(last.chatId)}
  /\ DOMAIN threads = {buildThreadKey(last.chatId, last.agentId)}

\* C10: migration is at most once: for every conversation at most one resolve
\* call returned migrated = true, the legacy value went to at most one canonical
\* key, and from that call on the legacy key is absent.
C10_MigrationAtMostOnce ==
  \A s \in Scopes :
    /\ migrations[s].count <= 1
    /\ Cardinality(migrations[s].keys) <= 1
    /\ migrations[s].count >= 1 => ~MapHas(threads, getLegacyThreadKey(s))

\* C10 witness: after a migration, a resolve for the other agent of the same
\* conversation found nothing to migrate
C10_Witness ==
  /\ last.op = "resolve"
  /\ migrations[last.chatId].count = 1
  /\ last.threadKey \notin migrations[last.chatId].keys
  /\ ~last.migrated
  /\ last.threadId = undefined

\* C11: clearThreadForAgent removes the canonical entry of scope and agent and
\* the legacy entry of the scope, touches no other entry, returns true exactly
\* when one of the two existed, and the resolve that follows immediately
\* returns no session id with migrated = false.
C11_ClearRemovesBoth ==
  last.op = "clear" =>
    LET threadKey == buildThreadKey(last.chatId, last.agentId)
        legacyKey == getLegacyThreadKey(last.chatId)
        again == resolveThreadId(threads, last.chatId, last.agentId)
    IN  /\ ~MapHas(threads, threadKey)
        /\ ~MapHas(threads, legacyKey)
        /\ \A k \in ThreadKeys \ {threadKey, legacyKey} :
             /\ MapHas(threads, k) = MapHas(last.before, k)
             /\ MapHas(threads, k) => threads[k] = last.before[k]
        /\ last.removed =
             (MapHas(last.before, threadKey) \/ MapHas(last.before, legacyKey))
        /\ again.threadId = undefined
        /\ ~again.migrated

\* C11 witness: a clear removed a legacy entry where no canonical one existed,
\* and left another agent's entry of the same conversation in place
C11_Witness ==
  /\ last.op = "clear"
  /\ last.removed
  /\ ~MapHas(last.before, buildThreadKey(last.chatId, last.agentId))
  /\ MapHas(last.before, getLegacyThreadKey(last.chatId))
  /\ \E a \in Agents : MapHas(threads, buildThreadKey(last.chatId, a))

\* the list of blocks contains the block
Contains(blocks, b) == \E k \in 1..Len(blocks) : blocks[k] = b

\* C12: bootstrap injection: the prompt a turn sends carries the bootstrap
\* block, once and in front, exactly when the thread map held no session id
\* for the conversation and agent (neither canonical nor legacy) at the
\* resolve step; a turn that resumes a session id never carries it.
C12_BootstrapInjection ==
  last.op = "command" =>
    /\ Contains(last.finalPrompt, "bootstrap") <=> ~last.hadSession
    /\ Truthy(last.threadId) => ~Contains(last.finalPrompt, "bootstrap")
    /\ Contains(last.finalPrompt, "bootstrap") =>
         /\ last.finalPrompt[1] = "bootstrap"
         /\ \A k \in 2..Len(last.finalPrompt) : last.finalPrompt[k] # "bootstrap"

\* C12 witness: the second call resumes a session on the key's first counted
\* turn and its prompt has the user's text without the bootstrap block
C12_Witness ==
  /\ last.op = "command"
  /\ last.run = 2
  /\ last.turnCount = 1
  /\ Truthy(last.threadId)
  /\ last.finalPrompt # <<>>
  /\ Head(last.finalPrompt) = "prompt"

\* C13: file-instruction cadence: the turn count a call works with is the
\* key's stored count after incrementing, and the prompt carries the
\* file-handling instructions exactly when the resolve step found no session
\* id or that count is a multiple of the cadence.
C13_FileInstructionCadence ==
  /\ last.op = "start" =>
       /\ runs[last.run].turnCount =
            threadTurns[buildThreadKey(RunnerScope, runs[last.run].agentId)]
       /\ runs[last.run].turnCount >= 1
  /\ last.op = "command" =>
       (Contains(last.finalPrompt, "fileInstructions")
          <=> (~last.hadSession \/ last.turnCount % fileInstructionsEvery = 0))

\* C13 witness: a resumed session gets the instructions again on the turn
\* whose count equals the cadence
C13_Witness ==
  /\ last.op = "command"
  /\ last.hadSession
  /\ last.turnCount = fileInstructionsEvery
  /\ Contains(last.finalPrompt, "fileInstructions")
  /\ ~Contains(last.finalPrompt, "bootstrap")

\* the stdout parses as structured output or yields non-empty extracted text
Usable(stdout) == stdout.sawJson \/ stdout.text # ""

C15_HardFailureKeepsSession ==
  /\ []((last.op \in {"exec", "return"} /\ last.res.execError
           /\ ~Usable(last.res.stdout))
          => /\ runs[last.run].pc = "thrown"
             /\ runs[last.run].error = "exec"
             /\ threads = last.before
             /\ Len(persists) = last.persistsBefore)
  /\ [][\A i \in RunIds :
          (runs[i].pc \in {"context", "exec"} /\ runs'[i] # runs[i]
             /\ runs'[i].pc \in {"exec", "thrown"})
            => (threads' = threads /\ persists' = persists)]_vars

\* C15 witness: a call that resumed a stored session failed hard and the
\* session is still stored
C15_Witness ==
  /\ last.op = "exec"
  /\ last.res.execError
  /\ ~last.res.stdout.blank
  /\ runs[last.run].pc = "thrown"
  /\ MapHas(threads, buildThreadKey(RunnerScope, last.agentId))

\* C16: session recovery: the listing fallback runs exactly when the parsed
\* output has no session id and the adapter has listSessionsCommand; when it
\* fails or finds nothing the call still returns its reply, stores no session
\* id and starts no persist.
C16_SessionRecovery ==
  /\ (last.op \in {"exec", "return"} /\ runs[last.run].pc # "thrown") =>
       (runs[last.run].pc = "listing"
          <=> (~Truthy(last.res.stdout.threadId)
                 /\ HasListSessionsCommand(last.agentId)))
  /\ \A i \in RunIds : runs[i].pc = "listing" => HasListSessionsCommand(runs[i].agentId)
  /\ (last.op = "list" /\ last.resolved \notin SessionIds) =>
       /\ runs[last.run].pc = "returned"
       /\ last.reply \in {"hi", "stdout"}
       /\ last.stored = undefined
       /\ threads = last.before
       /\ Len(persists) = last.persistsBefore

\* C16 witness: the listing command failed and the call returned its reply
C16_Witness ==
  /\ last.op = "list"
  /\ last.resolved = "fail"
  /\ runs[last.run].pc = "returned"
  /\ last.reply = "hi"

\* C17: fire-and-forget persistence: the settling of a persistThreads promise,
\* rejection included, changes no call; no call ever throws a persistence
\* error; a call that stores a session id returns in the same step, its
\* persist still pending, and a call that migrated goes on with its persist
\* pending.
C17_FireAndForgetPersist ==
  /\ [][last'.op = "persist" => runs' = runs]_vars
  /\ [](\A i \in RunIds :
          runs[i].pc = "thrown" => runs[i].error \in {"bootstrap", "retrieval", "exec"})
  /\ []((last.op \in {"return", "list"} /\ Truthy(last.stored)) =>
          /\ runs[last.run].pc = "returned"
          /\ Len(persists) = last.persistsBefore + 1
          /\ persists[Len(persists)] = [by |-> last.run, state |-> "pending"])
  /\ []((last.op = "start" /\ last.migrated) =>
          /\ runs[last.run].pc = "context"
          /\ Len(persists) = last.persistsBefore + 1
          /\ persists[Len(persists)] = [by |-> last.run, state |-> "pending"])

\* C17 witness: the persist of a migration rejects while its call is still
\* waiting for the agent process
C17_Witness ==
  /\ last.op = "persist"
  /\ ~last.ok
  /\ runs[last.run].pc = "exec"

\* the position of a task in its handler, in program order
Rank(pc) ==
  CASE pc = "queued" -> 0
    [] pc = "captureUser" -> 1
    [] pc = "exec" -> 2
    [] pc = "listing" -> 3
    [] pc = "captureAssistant" -> 4
    [] pc = "reply" -> 5
    [] pc = "errorReply" -> 6
    [] OTHER -> 7

\* C18: a failed turn yields exactly one error reply for its own request and
\* nothing else: the step in which a task's runner throws takes that task to
\* its error reply and changes no other task; the error reply is sent once,
\* after which the task is settled for good, having never been at its normal
\* reply; and a task queued behind settled tasks can start whether or not
\* they failed.
C18_OneErrorReply ==
  /\ [][\A j \in TaskIds :
          /\ Rank(tasks'[j].pc) >= Rank(tasks[j].pc)
          /\ (tasks[j].pc \in {"exec", "listing"} /\ Rank(tasks'[j].pc) > 4)
               => tasks'[j].pc = "errorReply"
          /\ (tasks[j].pc = "errorReply" /\ tasks'[j] # tasks[j])
               => Settled(tasks'[j])
          /\ Settled(tasks[j]) => tasks'[j] = tasks[j]
          /\ (tasks'[j].pc = "errorReply" \/ tasks[j].pc = "errorReply")
               => \A i \in TaskIds \ {j} :
                    tasks'[i] # tasks[i] => tasks'[j] = tasks[j]]_vars
  /\ [](\A j \in TaskIds :
          (tasks[j].pc = "queued"
             /\ \A i \in TaskIds : SameKeyInOrder(i, j) => Settled(tasks[i]))
            => ENABLED StartTask(j))

\* C18 witness: a turn failed and even its error reply could not be sent; the
\* next turn of the same conversation is at its normal reply
C18_Witness ==
  \E i, j \in TaskIds :
    /\ SameKeyInOrder(i, j)
    /\ tasks[i].pc = "rejected"
    /\ tasks[j].pc = "reply"

\* the number of single quotes in a string
RECURSIVE CountQuotes(_)
CountQuotes(value) ==
  IF value = <<>> THEN 0
  ELSE (IF Head(value) = "'" THEN 1 ELSE 0) + CountQuotes(Tail(value))

\* the argument the prompt must arrive as: the prompt itself, or the one
\* parameter reference when the caller passes a prompt expression
PromptArg(prompt, options) ==
  IF options.promptExpression = NoString THEN prompt ELSE <<"$PROMPT">>

\* an optional flag with its value, as arguments
FlagArgs(flag, value) ==
  IF value = NoString \/ value = <<>> THEN <<>> ELSE <<<<flag>>, value>>

\* the argument vector the command of an agent stands for
Argv(agentId, prompt, options) ==
  IF agentId = AGENT_CODEX
    THEN <<<<"codex">>, <<"exec">>>>
           \o (IF options.threadId = undefined THEN <<>>
               ELSE <<<<"resume">>, <<options.threadId>>>>)
           \o <<<<"--json">>, <<"--skip-git-repo-check">>>>
           \o FlagArgs("--model", options.model)
           \o FlagArgs("--thinking", options.thinking)
           \o <<PromptArg(prompt, options)>>
    ELSE <<<<"gemini">>, <<"-p">>, PromptArg(prompt, options),
           <<"--output-format">>, <<"json">>, <<"--yolo">>>>
           \o (IF options.threadId = undefined THEN <<>>
               ELSE <<<<"--resume">>, <<options.threadId>>>>)

\* C19: shell-quoting round trip: shellQuote wraps the value in single quotes
\* and replaces each embedded ' by the four characters '\'' and nothing else;
\* the shell reads the quoted value back as exactly one word equal to the
\* value; and the command an adapter builds divides into exactly the intended
\* arguments, the prompt being one of them, character for character.
C19_ShellQuoteRoundTrip ==
  /\ last.op = "shellQuote" =>
       /\ Len(last.quoted) = Len(last.value) + 3 * CountQuotes(last.value) + 2
       /\ last.quoted[1] = "'"
       /\ last.quoted[Len(last.quoted)] = "'"
       /\ posixWords(last.quoted) = [ok |-> TRUE, words |-> <<last.value>>]
  /\ last.op = "buildCommand" =>
       posixWords(last.command) =
         [ok |-> TRUE, words |-> Argv(last.agentId, last.prompt, last.options)]

\* C19 witness: a command was built for a prompt that holds a single quote and
\* a backslash, with a model name that holds a quote and a blank
C19_Witness ==
  /\ last.op = "buildCommand"
  /\ last.options.promptExpression = NoString
  /\ last.prompt = <<"'", "\\">>
  /\ last.options.model = <<"m", "'", " ", "\\">>
  /\ last.options.threadId # undefined

\* sub occurs in str as a run of consecutive characters
IsSubSeq(sub, str) ==
  \E k \in 0..(Len(str) - Len(sub)) : SubSeq(str, k + 1, k + Len(sub)) = sub

\* the values of user or stored data a command embeds
EmbeddedValues(agentId, prompt, options) ==
  (IF options.promptExpression = NoString THEN {prompt} ELSE {})
    \cup (IF options.threadId = undefined THEN {} ELSE {<<options.threadId>>})
    \cup (IF agentId = AGENT_CODEX
            THEN {options.model, options.thinking} \ {NoString}
            ELSE {})

\* C20 (as claimed): every value of user or stored data that buildCommand
\* embeds stands in the command in its single-quote-escaped form, for every
\* adapter.
C20_EveryValueQuoted ==
  last.op = "buildCommand" =>
    \A v \in EmbeddedValues(last.agentId, last.prompt, last.options) :
      IsSubSeq(<<" ">> \o shellQuote(v), last.command)

\* the sextet a base64 character stands for
Base64Index(c) == CHOOSE n \in 0..63 : Base64Char(n) = c

\* the character of a byte
CodeChar(b) == CHOOSE c \in Chars : CharCode(c) = b

\* base64 --decode
RECURSIVE fromBase64(_)
fromBase64(str) ==
  IF Len(str) < 4 THEN <<>>
  ELSE LET i1 == Base64Index(str[1])
           i2 == Base64Index(str[2])
           rest == SubSeq(str, 5, Len(str))
       IN  IF str[3] = "="
             THEN <<CodeChar(i1 * 4 + i2 \div 16)>>
             ELSE LET i3 == Base64Index(str[3])
                  IN  IF str[4] = "="
                        THEN <<CodeChar(i1 * 4 + i2 \div 16),
                               CodeChar((i2 % 16) * 16 + i3 \div 4)>>
                        ELSE <<CodeChar(i1 * 4 + i2 \div 16),
                               CodeChar((i2 % 16) * 16 + i3 \div 4),
                               CodeChar((i3 % 4) * 64 + Base64Index(str[4]))>>
                               \o fromBase64(rest)

\* the position of the first ; of a command
FirstSemicolon(command) ==
  CHOOSE k \in 1..Len(command) :
    command[k] = ";" /\ \A j \in 1..(k - 1) : command[j] # ";"

\* the agent's part of the command of a turn, without the stderr redirection
AgentPart(command, mergeStderr) ==
  SubSeq(command, FirstSemicolon(command) + 4,
         IF mergeStderr THEN Len(command) - 2 ELSE Len(command))

C24_ResumeClause ==
  (last.op = "buildCommand" /\ last.agentId = AGENT_CODEX) =>
    LET threadId == last.options.threadId
        promptValue == IF last.options.promptExpression = NoString
                         THEN shellQuote(last.prompt) ELSE PROMPT_EXPRESSION
        n == Len(last.command)
    IN  /\ (\E k \in 1..n : last.command[k] = "resume") <=> threadId # undefined
        /\ threadId # undefined =>
             SubSeq(last.command, 1, 10) =
               <<"codex", " ", "exec", " ", "resume", " ", "'", threadId, "'", " ">>
        /\ threadId = undefined =>
             SubSeq(last.command, 1, 8) =
               <<"codex", " ", "exec", " ", "--json", " ", "--skip-git-repo-check", " ">>
        /\ SubSeq(last.command, n - Len(promptValue), n) = <<" ">> \o promptValue

\* C24 witness: a codex command that resumes session s2 with a model given,
\* and the prompt passed by reference
C24_Witness ==
  /\ last.op = "buildCommand"
  /\ last.agentId = AGENT_CODEX
  /\ last.options.threadId = "s2"
  /\ last.options.model = <<"m">>
  /\ last.options.promptExpression = PROMPT_EXPRESSION
  /\ IsSubSeq(<<"resume", " ", "'", "s2", "'", " ", "--json">>, last.command)

\* the texts of the message records of a stream, in order
RECURSIVE MessageRecords(_)
MessageRecords(output) ==
  IF output = <<>> THEN <<>>
  ELSE (IF /\ Head(output).kind = "record"
           /\ Head(output).payload.type = "item.completed"
           /\ includesMessage(Head(output).payload.itemType)
          THEN <<Head(output).payload>> ELSE <<>>)
         \o MessageRecords(Tail(output))

\* C22 (as claimed): reply selection: for a stream of well-formed records
\* with several message records, the returned text is the text of a
\* final-channel message if there is one, wherever it stands, and otherwise
\* the text of the last message record only.
C22_ReplySelection ==
  (/\ last.op = "parseOutput"
   /\ \A k \in 1..Len(last.output) : last.output[k].kind = "record"
   /\ Len(MessageRecords(last.output)) >= 2) =>
    LET msgs == MessageRecords(last.output)
        finals == {k \in 1..Len(msgs) : msgs[k].channel = "final"}
    IN  IF finals # {}
          THEN \E k \in finals : last.parsed.text = msgs[k].text
          ELSE last.parsed.text = msgs[Len(msgs)].text

\* the stream without the lines that are no well-formed record
RECURSIVE WellFormedOnly(_)
WellFormedOnly(output) ==
  IF output = <<>> THEN <<>>
  ELSE (IF Head(output).kind = "record" THEN <<Head(output)>> ELSE <<>>)
         \o WellFormedOnly(Tail(output))

\* C23 (as claimed): malformed lines are skipped without effect: the result
\* of parsing a stream (text, session id, structured-output flag) equals the
\* result of parsing the stream with every line that is no well-formed
\* record removed.
C23_MalformedSkipped ==
  last.op = "parseOutput" =>
    last.parsed = parseCodexJsonOutput(WellFormedOnly(last.output))

\* the patches of the calls overlaid in call order on an empty object
RECURSIVE OverlaidPatches(_, _)
OverlaidPatches(calls, config) ==
  IF calls = <<>> THEN config
  ELSE OverlaidPatches(
         Tail(calls),
         IF Head(calls).pc = "done"
           THEN [k \in (DOMAIN config) \cup (DOMAIN Head(calls).patch) |->
                   IF k \in DOMAIN Head(calls).patch
                     THEN Head(calls).patch[k] ELSE config[k]]
           ELSE config)

\* no call of updateConfig began while another was in flight
SequentialCalls == \A i \in ConfigCallIds : ~configCalls[i].overlapped

\* C25: updateConfig merges: readConfig on a missing file returns {}; when
\* the calls of updateConfig are sequential, readConfig returns the patches of
\* the completed calls overlaid in call order, each call returns that object,
\* and no such call fails.
C25_UpdateConfigMerges ==
  /\ readConfig(NoFile) = EmptyMap
  /\ SequentialCalls =>
       /\ readConfig(configDir.config) = OverlaidPatches(configCalls, EmptyMap)
       /\ \A i \in ConfigCallIds :
            /\ configCalls[i].pc # "failed"
            /\ configCalls[i].pc = "done" =>
                 configCalls[i].next =
                   OverlaidPatches(SubSeq(configCalls, 1, i), EmptyMap)

\* C25 witness: two sequential calls, the second naming another key than the
\* first; the file holds both keys
C25_Witness ==
  /\ SequentialCalls
  /\ Len(configCalls) = 2
  /\ configCalls[2].pc = "done"
  /\ DOMAIN configCalls[1].patch = {"agent"}
  /\ DOMAIN configCalls[2].patch = {"agentCwd"}
  /\ DOMAIN readConfig(configDir.config) = ConfigKeys
  /\ configDir.config.raw[2] = <<"agent", configCalls[1].patch["agent"]>>

\* C26 (as claimed): the menu catch-all does not block normal text: a call
\* for a conversation that has no menu state sends no reply and calls the
\* next handler exactly once, for any text and whatever the allowed-users
\* configuration.
C26_CatchAllPassesText ==
  (last.op = "catchAll" /\ ~last.hadState) =>
    (last.replies = 0 /\ last.nextCalls = 1)

\* the events captured so far for a conversation
EventsOf(chatId) ==
  IF MapHas(memoryEvents, chatId) THEN memoryEvents[chatId] ELSE <<>>

\* the roles task i has had captured
CapturedRoles(i) ==
  {e.role : e \in {EventsOf(tasks[i].chatId)[n] :
                     n \in {m \in 1..Len(EventsOf(tasks[i].chatId)) :
                              EventsOf(tasks[i].chatId)[m].task = i}}}

C28_QueueLiveness ==
  /\ []<>(\A i \in 1..Len(tasks) : Settled(tasks[i]))
  /\ [][\A i \in 1..Len(tasks) :
          /\ Len(tasks') > Len(tasks) => tasks'[i] = tasks[i]
          /\ tasks'[i].pc # tasks[i].pc =>
               /\ Rank(tasks'[i].pc) > Rank(tasks[i].pc)
               /\ tasks[i].pc = "queued" => tasks'[i].pc = "captureUser"
               /\ Settled(tasks'[i]) => tasks[i].pc \in {"reply", "errorReply"}]_vars

\* a task chained behind a task that rejected has run and settled
C28_Witness ==
  \E i \in 1..Len(tasks) :
    /\ tasks[i].prev # 0
    /\ tasks[tasks[i].prev].pc = "rejected"
    /\ Settled(tasks[i])

RunRank(pc) ==
  CASE pc = "context" -> 0
    [] pc = "exec" -> 1
    [] pc = "listing" -> 2
    [] OTHER -> 3

\* C29: within one call the runner executes the agent command exactly once
\* and the session-listing command at most once: a call moves forward only,
\* from its context to the execution, from the execution to the listing or
\* its end, from the listing to its return; every settling of the execution
\* or of the listing ends that stage for good, and an execution whose error
\* the runner throws ends the call with that error.
C29_NoRetry ==
  [][\A i \in RunIds :
       /\ runs'[i].pc # runs[i].pc =>
            /\ RunRank(runs'[i].pc) > RunRank(runs[i].pc)
            /\ runs'[i].pc = "listing" => runs[i].pc = "exec"
            /\ runs'[i].pc = "returned" => runs[i].pc \in {"exec", "listing"}
       /\ (last'.op \in {"exec", "return", "list"} /\ last'.run = i) =>
            /\ runs'[i].pc # runs[i].pc
            /\ (last'.op = "exec" /\ execOutcome(last'.res).throw) =>
                 (runs'[i].pc = "thrown" /\ runs'[i].error = "exec")]_vars

\* a call whose execution timed out or failed without output has thrown, and
\* another call has been through the listing and returned
C29_Witness ==
  /\ last.op = "exec"
  /\ last.res.execError
  /\ last.res.stdout.blank
  /\ runs[last.run].pc = "thrown"
  /\ \E j \in RunIds : j # last.run /\ runs[j].pc = "returned"

\* the tasks submitted under a key, and those of them still running or waiting
TasksOfKey(key) == {i \in TaskIds : tasks[i].key = key}

PendingOfKey(key) == {i \in TasksOfKey(key) : ~Settled(tasks[i])}

\* C30: the queues map has an entry for a key exactly while a task of that
\* key is running or waiting; the entry is the key's most recently chained
\* task, which is pending itself and settles after every other pending task
\* of the key (so awaiting the map's values awaits every pending task); once
\* all tasks of a key have settled the key has no entry.
C30_QueueBookkeeping ==
  \A key \in (DOMAIN queues) \cup {tasks[i].key : i \in TaskIds} :
    /\ MapHas(queues, key) <=> PendingOfKey(key) # {}
    /\ MapHas(queues, key) =>
         /\ queues[key] \in PendingOfKey(key)
         /\ \A i \in TasksOfKey(key) : i <= queues[key]
         /\ \A i \in PendingOfKey(key) :
              \A j \in TasksOfKey(key) : j > i => ~Settled(tasks[j])

\* a key has drained after two tasks and has no entry
C30_Witness ==
  \E i, j \in TaskIds :
    /\ i # j
    /\ tasks[i].key = tasks[j].key
    /\ PendingOfKey(tasks[i].key) = {}
    /\ ~MapHas(queues, tasks[i].key)

\* C31 (as claimed): after the latest /reset of a conversation and agent the
\* thread map holds no session id for them, under the canonical or the
\* legacy key, unless a turn submitted after that reset has come back from
\* the runner.
C31_ResetNotUndone ==
  last.op = "reset" =>
    LET scope == buildTopicKey(last.chatId, undefined)
        stored == \/ MapHas(threads, buildThreadKey(scope, last.agentId))
                  \/ MapHas(threads, getLegacyThreadKey(scope))
    IN  stored =>
          \E i \in TaskIds :
            /\ i > last.submitted
            /\ tasks[i].chatId = last.chatId
            /\ Rank(tasks[i].pc) >= Rank("captureAssistant")

\* C32 (as claimed): no lost config update: once two updateConfig calls with
\* disjoint patch keys have both returned, however their steps interleaved,
\* the stored config holds both patches.
C32_NoLostConfigUpdate ==
  \A i, j \in ConfigCallIds :
    (/\ i # j
     /\ configCalls[i].pc = "done"
     /\ configCalls[j].pc = "done"
     /\ (DOMAIN configCalls[i].patch) \cap (DOMAIN configCalls[j].patch) = {})
      => \A k \in DOMAIN configCalls[i].patch :
           /\ k \in DOMAIN readConfig(configDir.config)
           /\ readConfig(configDir.config)[k] = configCalls[i].patch[k]

\* C33 (as claimed): the startup load does not discard sessions: the
\* replacement of the thread map when loadThreads resolves never happens
\* after a call has read the map, and a call that stores a session id writes
\* it to the map `threads` is bound to at that time.
C33_StartupLoadKeepsSessions ==
  /\ [][(threadsLoaded' /\ ~threadsLoaded) => runs = <<>>]_vars
  /\ [][\A i \in RunIds :
          (runs[i].pc = "exec" /\ runs'[i].pc = "returned"
             /\ Truthy(runs'[i].stored)) =>
            MapGet(threads', buildThreadKey(RunnerScope, runs[i].agentId))
              = runs'[i].stored]_vars

SaveSettledStates == {"fulfilled", "rejected"}

C35_ShutdownTerminates ==
  /\ [](shutdownSeq.runs <= 1)
  /\ [](shutdownSeq.runs = 1 <=> shutdownStarted)
  /\ shutdownStarted ~> (shutdownSeq.pc = "exited")

\* both signals arrived, the process has exited, and a job and a persistence
\* promise never settled
C35_Witness ==
  /\ signalsHandled = Signals
  /\ shutdownSeq.pc = "exited"
  /\ shutdownSeq.runs = 1
  /\ \E i \in TaskIds : ~Settled(tasks[i])
  /\ \E k \in 1..Len(persists) : persists[k].state = "pending"

\* the turn counter of a key, 0 when the key has none
TurnsOf(turns, key) == IF MapHas(turns, key) THEN turns[key] ELSE 0

\* C36: turn counting: a runAgentForChat call raises the turn counter of its
\* thread key by exactly one before its first await (the call is not yet at
\* the execution), the counters of all other keys stay as they are, and no
\* other step of the runner, a failing one included, changes a counter.
C36_TurnCounting ==
  [][IF Len(runs') = Len(runs) + 1
       THEN LET i == Len(runs')
                key == buildThreadKey(RunnerScope, runs'[i].agentId)
            IN  /\ TurnsOf(threadTurns', key) = TurnsOf(threadTurns, key) + 1
                /\ runs'[i].turnCount = TurnsOf(threadTurns', key)
                /\ runs'[i].pc = "context"
                /\ DOMAIN threadTurns' = DOMAIN threadTurns \cup {key}
                /\ \A k \in DOMAIN threadTurns \ {key} :
                     threadTurns'[k] = threadTurns[k]
       ELSE threadTurns' = threadTurns]_vars

\* the second call for a key has thrown at the execution and the key's
\* counter stands at two
C36_Witness ==
  /\ last.op = "exec"
  /\ runs[last.run].pc = "thrown"
  /\ TurnsOf(threadTurns, buildThreadKey(RunnerScope, runs[last.run].agentId)) = 2

\* C37: frame of resolve: resolveThreadId leaves every entry other than the
\* canonical key of the given scope and agent and the legacy key of that
\* scope as it was, and changes nothing at all when the canonical key
\* already holds a session id, a legacy entry of the scope included.
C37_FrameOfResolve ==
  last.op = "resolve" =>
    LET canonical == buildThreadKey(last.chatId, last.agentId)
        legacyKey == getLegacyThreadKey(last.chatId)
    IN  /\ \A k \in ThreadKeys \ {canonical, legacyKey} :
             /\ MapHas(threads, k) <=> MapHas(last.before, k)
             /\ MapGet(threads, k) = MapGet(last.before, k)
        /\ DOMAIN threads \subseteq ThreadKeys
        /\ MapHas(last.before, canonical) => threads = last.before

\* a resolve found a canonical entry next to a legacy entry of the same
\* scope and entries of another agent and another scope, and kept them all
C37_Witness ==
  /\ last.op = "resolve"
  /\ MapHas(last.before, buildThreadKey(last.chatId, last.agentId))
  /\ MapHas(last.before, getLegacyThreadKey(last.chatId))
  /\ \E a \in Agents \ {last.agentId} :
       MapHas(last.before, buildThreadKey(last.chatId, a))
  /\ \E c \in Scopes \ {last.chatId} : MapHas(last.before, getLegacyThreadKey(c))
  /\ threads = last.before

\* every call of setThreadForAgent the last handler made had a valid session
\* id, for codex, while codex was the effective agent
SetCallsValidated ==
  last.op \in SessionOps =>
    \A call \in last.sets :
      /\ isValidSessionId(call.sessionId)
      /\ call.agentId = AGENT_CODEX
      /\ last.agentId = AGENT_CODEX

\* the handlers that attach a selected session
AttachOps == {"session", "resumeLast", "menuAttach", "projectOpen"}

\* C38: the settings commands and menu actions call setThreadForAgent only
\* with a session id that passes isValidSessionId and only while the
\* effective agent of the conversation is codex, and a handler that rejects
\* its selection leaves the thread map as it found it.
C38_ValidatedAttach ==
  last.op \in SessionOps =>
    /\ SetCallsValidated
    /\ (last.op \in AttachOps /\ last.sets = {}) => threads = last.before

\* C39: a command that clears or attaches the session of a conversation and
\* agent leaves no turn counter under that key in the same step, and a turn
\* for that conversation and agent that comes next runs with turn count 1.
C39_TurnCounterReset ==
  /\ [](last.op \in SessionOps /\ (last.cleared \/ last.sets # {}) =>
          ~MapHas(threadTurns, last.chatId \o ":" \o last.agentId))
  /\ [][(/\ last.op \in SessionOps
         /\ last.cleared \/ last.sets # {}
         /\ last'.op = "turn"
         /\ last'.chatId = last.chatId
         /\ last'.agentId = last.agentId) => last'.turnCount = 1]_vars

\* a session was attached or cleared for a key whose counter stood at the
\* most turns
C39_Witness ==
  /\ last.op \in SessionOps
  /\ last.cleared \/ last.sets # {}
  /\ TurnsOf(last.turnsBefore, last.chatId \o ":" \o last.agentId) = MaxTurns
  /\ ~MapHas(threadTurns, last.chatId \o ":" \o last.agentId)

\* C40: auto-curation counter: after every maybeAutoCurateMemory call the
\* count of events since the last curation lies in 0..memoryCurateEvery - 1;
\* a curation is scheduled exactly on the calls whose incremented count
\* reaches memoryCurateEvery, and the count is 0 after those; the promise of
\* an automatic curation never rejects, so its failure reaches no caller.
C40_AutoCurationCounter ==
  /\ memoryEventsSinceCurate \in 0..(memoryCurateEvery - 1)
  /\ (last.op = "capture" /\ last.counted) =>
       /\ last.scheduled <=> last.before + 1 = memoryCurateEvery
       /\ last.scheduled => memoryEventsSinceCurate = 0
       /\ ~last.scheduled => memoryEventsSinceCurate = last.before + 1
       /\ ~last.threw
  /\ last.op = "curation" => ~last.threw
  /\ \A k \in 1..Len(memoryPersist) :
       memoryPersist[k].kind = "auto" => memoryPersist[k].state # "rejected"

\* an automatic curation failed and was swallowed, and a later call of
\* maybeAutoCurateMemory scheduled the next one with the count back at 0
C40_Witness ==
  /\ last.op = "capture"
  /\ last.scheduled
  /\ last.before = memoryCurateEvery - 1
  /\ memoryEventsSinceCurate = 0
  /\ \E k \in 1..Len(memoryPersist) :
       /\ memoryPersist[k].kind = "auto"
       /\ memoryPersist[k].failed
       /\ memoryPersist[k].state = "fulfilled"

====
